---- MODULE Spec2Model ----
(***************************************************************************)
(* barnacle_beats: the fact store, the rule engine and the story engine of *)
(* src/src/beats, and the per-frame systems that drive them.               *)
(*                                                                         *)
(* Three specifications share the variables:                               *)
(*   SpecStore  the CoolFactStore API called by a driver, one call a step; *)
(*   SpecStory  Story::evaluate_active_beat called with any snapshot;      *)
(*   Spec       the Update schedule of StoryPlugin: every system runs once *)
(*              per frame, in an order the schedule does not fix.          *)
(***************************************************************************)
EXTENDS Integers, Sequences, FiniteSets, TLC

VARIABLES
    facts,          \* CoolFactStore.facts: HashMap<String, Fact>
    updated_facts,  \* CoolFactStore.updated_facts: HashSet<Fact>
    panicked,       \* a panic!() was raised: the process is gone
    stories,        \* StoryEngine.stories: Vec<Story>
    rules,          \* RuleEngine.rules: HashMap<String, Rule>
    rule_states,    \* RuleEngine.rule_states: HashMap<String, bool>
    call,           \* the last call of the API under test and its arguments
    drained,        \* what the last drain of updated_facts yielded
    fact_updated,   \* Events<FactUpdated> not yet read, per reading system
    beat_finished,  \* Events<StoryBeatFinished> not yet read by the applier
    ran,            \* the systems that have run in the current frame
    pressed,        \* the button went to Interaction::Pressed in this frame
    applied,        \* history: how often each beat's effects were applied
    fresh,          \* history: beats finished, and facts their effects wrote, in this frame
    saw,            \* history: an evaluation of this frame read a fact in fresh
    last_pass       \* history: each rule's satisfaction at the latest evaluate_rules
                    \* (now) and at the one before it (before), false where the rule
                    \* has not been evaluated that often since it was added; and the
                    \* rules added again, while tracked as true, since the latest one

vars == <<facts, updated_facts, panicked, stories, rules, rule_states, call, drained,
          fact_updated, beat_finished, ran, pressed, applied, fresh, saw, last_pass>>

-----------------------------------------------------------------------------
(* Bounds of the model *)

MaxIntVal == 1       \* store_int is called with 0..MaxIntVal in SpecStore
MaxSnapshotInt == 2  \* a snapshot of SpecStory holds integers 0..MaxSnapshotInt
MaxBeats == 3        \* stories of SpecStory have up to MaxBeats beats
MaxPresses == 12     \* the button is pressed at most MaxPresses times in Spec
MaxAdd == 2          \* add_to_int is called on integers within MaxAdd of 0, MinI32 or MaxI32
MaxConds == 2        \* a rule of SpecEval has up to MaxConds conditions
MaxRules == 2        \* a beat of SpecEval has up to MaxRules rules
MaxDirty == 3        \* SpecAdd calls add_to_int while fewer than MaxDirty Values are dirty

Names == {"button_pressed", "beat_one"}
IntVals == 0..MaxIntVal
StrVals == {"a", "b"}
ListVals == {"vip"}
ListNames == {"tags"}
Tags == {"vip", "red"}

-----------------------------------------------------------------------------
(* enum Fact: the name is part of the value *)

\* a tuple <<variant, name, payload>>, so that two facts of different variants
\* differ in their first component
Fact_Int(key, value) == <<"Int", key, value>>
Fact_String(key, value) == <<"String", key, value>>
Fact_Bool(key, value) == <<"Bool", key, value>>
Fact_StringList(key, value) == <<"StringList", key, value>>
Variant(fact) == fact[1]
NameOf(fact) == fact[2]
Payload(fact) == fact[3]

\* HashMap: a function on the keys present
EmptyMap == [k \in {} |-> FALSE]
Insert(map, key, value) ==
    [k \in DOMAIN map \cup {key} |-> IF k = key THEN value ELSE map[k]]

\* CoolFactStore::new
CoolFactStore_new == [facts |-> EmptyMap, updated_facts |-> {}, panicked |-> FALSE]

\* a setter that panics leaves the store as it was and ends the process
Panic(st) == [st EXCEPT !.panicked = TRUE]

\* a variant of store_int: no comparison with the current value
\* a variant of store_int: a fact of another variant is left alone, without error
store_int_skips_mismatch(st, key, value) ==
    IF key \in DOMAIN st.facts /\ Variant(st.facts[key]) # "Int"
    THEN st
    ELSE [st EXCEPT !.facts = Insert(@, key, Fact_Int(key, value)),
                    !.updated_facts = IF key \in DOMAIN st.facts /\ Payload(st.facts[key]) = value
                                      THEN @ ELSE @ \cup {Fact_Int(key, value)}]

\* a variant of store_int: an equal value is marked dirty again
store_int_no_dedup(st, key, value) ==
    IF key \in DOMAIN st.facts
    THEN IF Variant(st.facts[key]) = "Int"
         THEN [st EXCEPT !.facts[key] = Fact_Int(key, value),
                         !.updated_facts = @ \cup {Fact_Int(key, value)}]
         ELSE Panic(st)
    ELSE [st EXCEPT !.facts = Insert(@, key, Fact_Int(key, value)),
                    !.updated_facts = @ \cup {Fact_Int(key, value)}]

store_int(st, key, value) ==
    IF key \in DOMAIN st.facts
    THEN IF Variant(st.facts[key]) = "Int"
         THEN IF Payload(st.facts[key]) # value
              THEN [st EXCEPT !.facts[key] = Fact_Int(key, value),
                              !.updated_facts = @ \cup {Fact_Int(key, value)}]
              ELSE st
         ELSE Panic(st)
    ELSE [st EXCEPT !.facts = Insert(@, key, Fact_Int(key, value)),
                    !.updated_facts = @ \cup {Fact_Int(key, value)}]

\* a variant of store_string: a fact of another variant is overwritten
store_string_no_panic(st, key, value) ==
    IF key \in DOMAIN st.facts
    THEN IF Variant(st.facts[key]) = "String" /\ Payload(st.facts[key]) = value
         THEN st
         ELSE [st EXCEPT !.facts[key] = Fact_String(key, value),
                         !.updated_facts = @ \cup {Fact_String(key, value)}]
    ELSE [st EXCEPT !.facts = Insert(@, key, Fact_String(key, value)),
                    !.updated_facts = @ \cup {Fact_String(key, value)}]

\* a variant of store_string: the dirty mark goes to the Value that is replaced
store_string_marks_old(st, key, value) ==
    IF key \in DOMAIN st.facts
    THEN IF Variant(st.facts[key]) = "String"
         THEN IF Payload(st.facts[key]) # value
              THEN [st EXCEPT !.facts[key] = Fact_String(key, value),
                              !.updated_facts = @ \cup {st.facts[key]}]
              ELSE st
         ELSE Panic(st)
    ELSE [st EXCEPT !.facts = Insert(@, key, Fact_String(key, value)),
                    !.updated_facts = @ \cup {Fact_String(key, value)}]

store_string(st, key, value) ==
    IF key \in DOMAIN st.facts
    THEN IF Variant(st.facts[key]) = "String"
         THEN IF Payload(st.facts[key]) # value
              THEN [st EXCEPT !.facts[key] = Fact_String(key, value),
                              !.updated_facts = @ \cup {Fact_String(key, value)}]
              ELSE st
         ELSE Panic(st)
    ELSE [st EXCEPT !.facts = Insert(@, key, Fact_String(key, value)),
                    !.updated_facts = @ \cup {Fact_String(key, value)}]

\* a variant of store_bool: a Value of another variant is replaced
store_bool_overwrites(st, key, value) ==
    IF key \in DOMAIN st.facts /\ st.facts[key] = Fact_Bool(key, value)
    THEN st
    ELSE [st EXCEPT !.facts = Insert(@, key, Fact_Bool(key, value)),
                    !.updated_facts = @ \cup {Fact_Bool(key, value)}]

\* a variant of store_bool: a new fact is inserted without the dirty mark
store_bool_insert_clean(st, key, value) ==
    IF key \in DOMAIN st.facts
    THEN IF Variant(st.facts[key]) = "Bool"
         THEN IF Payload(st.facts[key]) # value
              THEN [st EXCEPT !.facts[key] = Fact_Bool(key, value),
                              !.updated_facts = @ \cup {Fact_Bool(key, value)}]
              ELSE st
         ELSE Panic(st)
    ELSE [st EXCEPT !.facts = Insert(@, key, Fact_Bool(key, value))]

store_bool(st, key, value) ==
    IF key \in DOMAIN st.facts
    THEN IF Variant(st.facts[key]) = "Bool"
         THEN IF Payload(st.facts[key]) # value
              THEN [st EXCEPT !.facts[key] = Fact_Bool(key, value),
                              !.updated_facts = @ \cup {Fact_Bool(key, value)}]
              ELSE st
         ELSE Panic(st)
    ELSE [st EXCEPT !.facts = Insert(@, key, Fact_Bool(key, value)),
                    !.updated_facts = @ \cup {Fact_Bool(key, value)}]

\* a variant of add_to_list: the fact is marked dirty whether or not the value is new
add_to_list_always_dirty(st, key, value) ==
    IF key \in DOMAIN st.facts
    THEN IF Variant(st.facts[key]) = "StringList"
         THEN LET f == Fact_StringList(key, Payload(st.facts[key]) \cup {value})
              IN  [st EXCEPT !.facts[key] = f,
                             !.updated_facts = @ \cup {f}]
         ELSE st
    ELSE LET f == Fact_StringList(key, {value})
         IN  [st EXCEPT !.facts = Insert(@, key, f),
                        !.updated_facts = @ \cup {f}]

add_to_list(st, key, value) ==
    IF key \in DOMAIN st.facts
    THEN IF Variant(st.facts[key]) = "StringList"
         THEN IF value \notin Payload(st.facts[key])
              THEN LET f == Fact_StringList(key, Payload(st.facts[key]) \cup {value})
                   IN  [st EXCEPT !.facts[key] = f,
                                  !.updated_facts = @ \cup {f}]
              ELSE st
         ELSE st
    ELSE LET f == Fact_StringList(key, {value})
         IN  [st EXCEPT !.facts = Insert(@, key, f),
                        !.updated_facts = @ \cup {f}]

\* a variant of remove_from_list: the element stays in the set
remove_from_list_keeps(st, key, value) == st

remove_from_list(st, key, value) ==
    IF key \in DOMAIN st.facts
    THEN IF Variant(st.facts[key]) = "StringList"
         THEN IF value \in Payload(st.facts[key])
              THEN LET f == Fact_StringList(key, Payload(st.facts[key]) \ {value})
                   IN  [st EXCEPT !.facts[key] = f,
                                  !.updated_facts = @ \cup {f}]
              ELSE st
         ELSE st
    ELSE st

\* Option<T>: None is <<>>, Some(v) is <<v>>
None == <<>>
Some(v) == <<v>>

\* the range of i32
MaxI32 == 2147483647
MinI32 == -MaxI32 - 1

\* current + value on i32. A sum outside the range panics in a build with
\* overflow checks (None) and wraps round in a build without them; the wrapped
\* sum is formed from differences that stay inside the range.
i32_add(current, value) ==
    IF value > 0 /\ current > MaxI32 - value
    THEN {None, Some((current - MaxI32) + (value - 1) + MinI32)}
    ELSE IF value < 0 /\ current < MinI32 - value
    THEN {None, Some((current - MinI32) + (value + 1) + MaxI32)}
    ELSE {Some(current + value)}

\* the stores a call can leave, one for each outcome of the addition
add_to_int(st, key, value) ==
    LET current == IF key \in DOMAIN st.facts /\ Variant(st.facts[key]) = "Int"
                   THEN Payload(st.facts[key]) ELSE 0
    IN  {IF sum = None THEN Panic(st) ELSE store_int(st, key, sum[1]) :
            sum \in i32_add(current, value)}

\* data.rs 89-92: the body is the body of add_to_int, it adds value
subtract_from_int(st, key, value) ==
    LET current == IF key \in DOMAIN st.facts /\ Variant(st.facts[key]) = "Int"
                   THEN Payload(st.facts[key]) ELSE 0
    IN  {IF sum = None THEN Panic(st) ELSE store_int(st, key, sum[1]) :
            sum \in i32_add(current, value)}

get_int(fs, key) ==
    IF key \in DOMAIN fs /\ Variant(fs[key]) = "Int" THEN Some(Payload(fs[key])) ELSE None
get_string(fs, key) ==
    IF key \in DOMAIN fs /\ Variant(fs[key]) = "String" THEN Some(Payload(fs[key])) ELSE None
\* a variant of get_bool: a name that holds no Bool reads as false
get_bool_or_false(fs, key) ==
    IF key \in DOMAIN fs /\ Variant(fs[key]) = "Bool" THEN Some(Payload(fs[key])) ELSE Some(FALSE)
get_bool(fs, key) ==
    IF key \in DOMAIN fs /\ Variant(fs[key]) = "Bool" THEN Some(Payload(fs[key])) ELSE None
get_list(fs, key) ==
    IF key \in DOMAIN fs /\ Variant(fs[key]) = "StringList" THEN Some(Payload(fs[key])) ELSE None

\* a variant of drain: the values are yielded but stay in the set
drain_keeps(dirty) == [yielded |-> dirty, left |-> dirty]

\* updated_facts.drain(), iterated to its end: all is yielded, nothing stays
drain(dirty) == [yielded |-> dirty, left |-> {}]


-----------------------------------------------------------------------------
(* Condition, Rule, StoryBeat, Story *)

IntEquals(fact_name, expected_value) == <<"IntEquals", fact_name, expected_value>>
IntMoreThan(fact_name, expected_value) == <<"IntMoreThan", fact_name, expected_value>>
IntLessThan(fact_name, expected_value) == <<"IntLessThan", fact_name, expected_value>>
StringEquals(fact_name, expected_value) == <<"StringEquals", fact_name, expected_value>>
BoolEquals(fact_name, expected_value) == <<"BoolEquals", fact_name, expected_value>>
ListContains(fact_name, expected_value) == <<"ListContains", fact_name, expected_value>>
Kind(c) == c[1]
FactName(c) == c[2]
Expected(c) == c[3]

\* the fact under the condition's name, if it has the variant the arm matches
Matches(fs, key, type) == key \in DOMAIN fs /\ Variant(fs[key]) = type

\* a variant of Condition_evaluate: IntLessThan reads a missing integer as 0
Condition_evaluate_absent_zero(c, fs) ==
    CASE Kind(c) = "IntEquals" ->
            IF Matches(fs, FactName(c), "Int")
            THEN Payload(fs[FactName(c)]) = Expected(c) ELSE FALSE
      [] Kind(c) = "StringEquals" ->
            IF Matches(fs, FactName(c), "String")
            THEN Payload(fs[FactName(c)]) = Expected(c) ELSE FALSE
      [] Kind(c) = "BoolEquals" ->
            IF Matches(fs, FactName(c), "Bool")
            THEN Payload(fs[FactName(c)]) = Expected(c) ELSE FALSE
      [] Kind(c) = "IntMoreThan" ->
            IF Matches(fs, FactName(c), "Int")
            THEN Payload(fs[FactName(c)]) > Expected(c) ELSE FALSE
      [] Kind(c) = "IntLessThan" ->
            IF Matches(fs, FactName(c), "Int")
            THEN Payload(fs[FactName(c)]) < Expected(c) ELSE 0 < Expected(c)
      [] Kind(c) = "ListContains" ->
            IF Matches(fs, FactName(c), "StringList")
            THEN Expected(c) \in Payload(fs[FactName(c)]) ELSE FALSE

\* a variant of Condition_evaluate: IntMoreThan also holds for an equal integer
Condition_evaluate_not_strict(c, fs) ==
    CASE Kind(c) = "IntEquals" ->
            IF Matches(fs, FactName(c), "Int")
            THEN Payload(fs[FactName(c)]) = Expected(c) ELSE FALSE
      [] Kind(c) = "StringEquals" ->
            IF Matches(fs, FactName(c), "String")
            THEN Payload(fs[FactName(c)]) = Expected(c) ELSE FALSE
      [] Kind(c) = "BoolEquals" ->
            IF Matches(fs, FactName(c), "Bool")
            THEN Payload(fs[FactName(c)]) = Expected(c) ELSE FALSE
      [] Kind(c) = "IntMoreThan" ->
            IF Matches(fs, FactName(c), "Int")
            THEN Payload(fs[FactName(c)]) >= Expected(c) ELSE FALSE
      [] Kind(c) = "IntLessThan" ->
            IF Matches(fs, FactName(c), "Int")
            THEN Payload(fs[FactName(c)]) < Expected(c) ELSE FALSE
      [] Kind(c) = "ListContains" ->
            IF Matches(fs, FactName(c), "StringList")
            THEN Expected(c) \in Payload(fs[FactName(c)]) ELSE FALSE

Condition_evaluate(c, fs) ==
    CASE Kind(c) = "IntEquals" ->
            IF Matches(fs, FactName(c), "Int")
            THEN Payload(fs[FactName(c)]) = Expected(c) ELSE FALSE
      [] Kind(c) = "StringEquals" ->
            IF Matches(fs, FactName(c), "String")
            THEN Payload(fs[FactName(c)]) = Expected(c) ELSE FALSE
      [] Kind(c) = "BoolEquals" ->
            IF Matches(fs, FactName(c), "Bool")
            THEN Payload(fs[FactName(c)]) = Expected(c) ELSE FALSE
      [] Kind(c) = "IntMoreThan" ->
            IF Matches(fs, FactName(c), "Int")
            THEN Payload(fs[FactName(c)]) > Expected(c) ELSE FALSE
      [] Kind(c) = "IntLessThan" ->
            IF Matches(fs, FactName(c), "Int")
            THEN Payload(fs[FactName(c)]) < Expected(c) ELSE FALSE
      [] Kind(c) = "ListContains" ->
            IF Matches(fs, FactName(c), "StringList")
            THEN Expected(c) \in Payload(fs[FactName(c)]) ELSE FALSE

Rule_new(name, conditions) == [name |-> name, conditions |-> conditions]

\* a variant of Rule_evaluate: one condition that holds is enough
Rule_evaluate_any(rule, fs) ==
    \E i \in 1..Len(rule.conditions) : Condition_evaluate(rule.conditions[i], fs)

Rule_evaluate(rule, fs) ==
    \A i \in 1..Len(rule.conditions) : Condition_evaluate(rule.conditions[i], fs)

SetFact(fact) == [kind |-> "SetFact", fact |-> fact]

\* StoryBeatBuilder::build: a beat starts unfinished
StoryBeat_build(name, beat_rules, effects) ==
    [name |-> name, rules |-> beat_rules, effects |-> effects, finished |-> FALSE]

\* a variant of StoryBeat_evaluate: a finished beat stays finished
StoryBeat_evaluate_sticky(beat, fs) ==
    [beat EXCEPT !.finished =
        @ \/ \A i \in 1..Len(beat.rules) : Rule_evaluate(beat.rules[i], fs)]

StoryBeat_evaluate(beat, fs) ==
    [beat EXCEPT !.finished = \A i \in 1..Len(beat.rules) : Rule_evaluate(beat.rules[i], fs)]

\* StoryBuilder::build: active_beat_index counts from 0, beats[i] is beats[i + 1] here
Story_build(name, beats) ==
    [name |-> name, beats |-> beats, active_beat_index |-> 0]

\* a variant of Story_evaluate_active_beat: the index wraps round to the first beat
Story_evaluate_active_beat_wraps(story, fs) ==
    IF story.active_beat_index < Len(story.beats)
    THEN LET active_beat == StoryBeat_evaluate(story.beats[story.active_beat_index + 1], fs)
         IN  [story EXCEPT !.beats[story.active_beat_index + 1] = active_beat,
                           !.active_beat_index =
                               IF active_beat.finished
                               THEN (@ + 1) % Len(story.beats) ELSE @]
    ELSE story

\* a variant of Story_evaluate_active_beat: the index moves past every beat that holds
RECURSIVE Story_evaluate_active_beat_skips(_, _)
Story_evaluate_active_beat_skips(story, fs) ==
    IF story.active_beat_index < Len(story.beats)
    THEN LET active_beat == StoryBeat_evaluate(story.beats[story.active_beat_index + 1], fs)
         IN  IF active_beat.finished
             THEN Story_evaluate_active_beat_skips(
                      [story EXCEPT !.beats[story.active_beat_index + 1] = active_beat,
                                    !.active_beat_index = @ + 1], fs)
             ELSE [story EXCEPT !.beats[story.active_beat_index + 1] = active_beat]
    ELSE story

\* a variant of Story_evaluate_active_beat: a clone of the active beat is evaluated
Story_evaluate_active_beat_on_clone(story, fs) ==
    IF story.active_beat_index < Len(story.beats)
    THEN LET active_beat == StoryBeat_evaluate(story.beats[story.active_beat_index + 1], fs)
         IN  [story EXCEPT !.active_beat_index = IF active_beat.finished THEN @ + 1 ELSE @]
    ELSE story

\* a variant of Story_evaluate_active_beat: the index may run past beats.len()
Story_evaluate_active_beat_overruns(story, fs) ==
    IF story.active_beat_index < Len(story.beats)
    THEN LET active_beat == StoryBeat_evaluate(story.beats[story.active_beat_index + 1], fs)
         IN  [story EXCEPT !.beats[story.active_beat_index + 1] = active_beat,
                           !.active_beat_index = IF active_beat.finished THEN @ + 1 ELSE @]
    ELSE [story EXCEPT !.active_beat_index = @ + 1]

Story_evaluate_active_beat(story, fs) ==
    IF story.active_beat_index < Len(story.beats)
    THEN LET active_beat == StoryBeat_evaluate(story.beats[story.active_beat_index + 1], fs)
         IN  [story EXCEPT !.beats[story.active_beat_index + 1] = active_beat,
                           !.active_beat_index = IF active_beat.finished THEN @ + 1 ELSE @]
    ELSE story

Story_is_finished(story) == story.active_beat_index >= Len(story.beats)

-----------------------------------------------------------------------------
(* The state after construction: StoryPlugin::build inserts the new resources *)

\* the history of an engine whose rules have not been evaluated yet
NoPass(rs) ==
    [before |-> [name \in DOMAIN rs |-> FALSE], now |-> [name \in DOMAIN rs |-> FALSE],
     readded |-> {}]

\* the history after one more evaluate_rules of the rules rs on the snapshot fs
PassMade(history, rs, fs) ==
    [before |-> history.now,
     now |-> [name \in DOMAIN rs |-> Rule_evaluate(rs[name], fs)],
     readded |-> {}]

\* ... and after n of them
RECURSIVE PassesMade(_, _, _, _)
PassesMade(n, history, rs, fs) ==
    IF n = 0 THEN history ELSE PassesMade(n - 1, PassMade(history, rs, fs), rs, fs)

NoCall == [op |-> "none", key |-> "", value |-> ""]

Store == [facts |-> facts, updated_facts |-> updated_facts, panicked |-> panicked]

SetStore(st) ==
    /\ facts' = st.facts
    /\ updated_facts' = st.updated_facts
    /\ panicked' = st.panicked

\* the record of a frame in which rule_evaluator has not run yet
NoRuleEvaluator ==
    [op |-> "none",
     key |-> [fact_updated |-> 0, rule_states |-> EmptyMap, satisfied |-> {}],
     value |-> EmptyMap]

InitFrame ==
    /\ facts = CoolFactStore_new.facts
    /\ updated_facts = CoolFactStore_new.updated_facts
    /\ panicked = CoolFactStore_new.panicked
    /\ drained = {}
    /\ fact_updated = [rule_evaluator |-> 0, story_evaluator |-> 0]
    /\ beat_finished = <<>>
    /\ ran = {}
    /\ pressed = FALSE
    /\ fresh = [beats |-> {}, facts |-> {}]
    /\ saw = {}

InitResources == InitFrame /\ call = NoCall

-----------------------------------------------------------------------------
(* SpecStore: a driver calls the CoolFactStore API *)

EngineVars == <<stories, rules, rule_states, last_pass, fact_updated, beat_finished, ran, pressed,
                applied, fresh, saw>>

StoreInt(key, value) ==
    /\ ~panicked
    /\ SetStore(store_int(Store, key, value))
    /\ call' = [op |-> "store_int", key |-> key, value |-> value]
    /\ UNCHANGED <<drained, EngineVars>>

StoreString(key, value) ==
    /\ ~panicked
    /\ SetStore(store_string(Store, key, value))
    /\ call' = [op |-> "store_string", key |-> key, value |-> value]
    /\ UNCHANGED <<drained, EngineVars>>

StoreBool(key, value) ==
    /\ ~panicked
    /\ SetStore(store_bool(Store, key, value))
    /\ call' = [op |-> "store_bool", key |-> key, value |-> value]
    /\ UNCHANGED <<drained, EngineVars>>

AddToList(key, value) ==
    /\ ~panicked
    /\ SetStore(add_to_list(Store, key, value))
    /\ call' = [op |-> "add_to_list", key |-> key, value |-> value]
    /\ UNCHANGED <<drained, EngineVars>>

RemoveFromList(key, value) ==
    /\ ~panicked
    /\ SetStore(remove_from_list(Store, key, value))
    /\ call' = [op |-> "remove_from_list", key |-> key, value |-> value]
    /\ UNCHANGED <<drained, EngineVars>>

DrainUpdated ==
    /\ ~panicked
    /\ drained' = drain(updated_facts).yielded
    /\ updated_facts' = drain(updated_facts).left
    /\ call' = [op |-> "drain", key |-> "", value |-> ""]
    /\ UNCHANGED <<facts, panicked, EngineVars>>

InitStore ==
    /\ InitResources
    /\ stories = <<>>
    /\ rules = EmptyMap
    /\ rule_states = EmptyMap
    /\ last_pass = NoPass(EmptyMap)
    /\ applied = EmptyMap

NextStore ==
    \/ \E key \in Names, value \in IntVals : StoreInt(key, value)
    \/ \E key \in Names, value \in StrVals : StoreString(key, value)
    \/ \E key \in Names, value \in BOOLEAN : StoreBool(key, value)
    \/ \E key \in Names, value \in ListVals : AddToList(key, value)
    \/ \E key \in Names, value \in ListVals : RemoveFromList(key, value)
    \/ DrainUpdated

SpecStore == InitStore /\ [][NextStore]_vars

-----------------------------------------------------------------------------
(* SpecAdd: a driver calls add_to_int on a name that is absent, holds an Int  *)
(* near 0 or near an end of i32, or holds a Bool                              *)

AddNames == {"button_pressed"}
Deltas == {-1, 0, 1}
Near(value) ==
    \/ (-MaxAdd < value /\ value < MaxAdd)
    \/ value > MaxI32 - MaxAdd
    \/ value < MinI32 + MaxAdd

AddToInt(key, value) ==
    /\ ~panicked
    /\ Cardinality(updated_facts) < MaxDirty
    /\ get_int(facts, key) # None => Near(get_int(facts, key)[1])
    /\ \E st \in add_to_int(Store, key, value) : SetStore(st)
    /\ call' = [op |-> "add_to_int", key |-> key, value |-> value]
    /\ UNCHANGED <<drained, EngineVars>>

NextAdd ==
    \/ \E key \in AddNames, value \in Deltas : AddToInt(key, value)
    \/ \E key \in AddNames, value \in {MinI32, MaxI32} : StoreInt(key, value)
    \/ \E key \in AddNames : StoreBool(key, TRUE)

SpecAdd == InitStore /\ [][NextAdd]_vars

-----------------------------------------------------------------------------
(* SpecSubtract: a driver calls add_to_int and subtract_from_int on a name that *)
(* is absent or holds an Int near 0, and drains                                 *)

SubtractFromInt(key, value) ==
    /\ ~panicked
    /\ Cardinality(updated_facts) < MaxDirty
    /\ get_int(facts, key) # None => Near(get_int(facts, key)[1])
    /\ \E st \in subtract_from_int(Store, key, value) : SetStore(st)
    /\ call' = [op |-> "subtract_from_int", key |-> key, value |-> value]
    /\ UNCHANGED <<drained, EngineVars>>

NextSubtract ==
    \/ \E key \in Names, value \in Deltas : AddToInt(key, value)
    \/ \E key \in Names, value \in Deltas : SubtractFromInt(key, value)
    \/ DrainUpdated

SpecSubtract == InitStore /\ [][NextSubtract]_vars

-----------------------------------------------------------------------------
(* SpecMutators: a driver calls all six mutators on one name, and drains *)

NextMutators ==
    \/ \E key \in AddNames, value \in IntVals : StoreInt(key, value)
    \/ \E key \in AddNames, value \in StrVals : StoreString(key, value)
    \/ \E key \in AddNames, value \in BOOLEAN : StoreBool(key, value)
    \/ \E key \in AddNames, value \in Deltas : AddToInt(key, value)
    \/ \E key \in AddNames, value \in ListVals : AddToList(key, value)
    \/ \E key \in AddNames, value \in ListVals : RemoveFromList(key, value)
    \/ DrainUpdated

SpecMutators == InitStore /\ [][NextMutators]_vars

-----------------------------------------------------------------------------
(* SpecGet: a driver writes Values of the four variants and calls the getters *)

StoreVars == <<facts, updated_facts, panicked>>

GetInt(key) ==
    /\ ~panicked
    /\ call' = [op |-> "get_int", key |-> key, value |-> get_int(facts, key)]
    /\ UNCHANGED <<StoreVars, drained, EngineVars>>

GetString(key) ==
    /\ ~panicked
    /\ call' = [op |-> "get_string", key |-> key, value |-> get_string(facts, key)]
    /\ UNCHANGED <<StoreVars, drained, EngineVars>>

GetBool(key) ==
    /\ ~panicked
    /\ call' = [op |-> "get_bool", key |-> key, value |-> get_bool(facts, key)]
    /\ UNCHANGED <<StoreVars, drained, EngineVars>>

GetList(key) ==
    /\ ~panicked
    /\ call' = [op |-> "get_list", key |-> key, value |-> get_list(facts, key)]
    /\ UNCHANGED <<StoreVars, drained, EngineVars>>

NextGet ==
    \/ \E key \in Names, value \in IntVals : StoreInt(key, value)
    \/ \E key \in Names, value \in StrVals : StoreString(key, value)
    \/ \E key \in Names, value \in BOOLEAN : StoreBool(key, value)
    \/ \E key \in Names, value \in ListVals : AddToList(key, value)
    \/ \E key \in Names : GetInt(key)
    \/ \E key \in Names : GetString(key)
    \/ \E key \in Names : GetBool(key)
    \/ \E key \in Names : GetList(key)

SpecGet == InitStore /\ [][NextGet]_vars

-----------------------------------------------------------------------------
(* SpecList: a driver calls the list operations, on a name that is absent, holds *)
(* a string-set or holds a Bool                                                 *)

NextList ==
    \/ \E key \in ListNames, value \in Tags : AddToList(key, value)
    \/ \E key \in ListNames, value \in Tags : RemoveFromList(key, value)
    \/ \E key \in ListNames : StoreBool(key, TRUE)
    \/ DrainUpdated

SpecList == InitStore /\ [][NextList]_vars

-----------------------------------------------------------------------------
(* SpecStory: Story::evaluate_active_beat on a story, with any snapshot *)

\* every fact a snapshot may hold under a name
FactsNamed(key) ==
    {Fact_Int(key, v) : v \in 0..MaxSnapshotInt} \cup {Fact_Bool(key, v) : v \in BOOLEAN}
        \cup {Fact_String(key, v) : v \in StrVals}

Snapshots ==
    UNION {{fs \in [D -> UNION {FactsNamed(key) : key \in Names}] :
                \A key \in D : NameOf(fs[key]) = key} : D \in SUBSET Names}

\* the beats the stories under test are made of
BeatsUnderTest ==
    { StoryBeat_build("pressed", <<Rule_new("r1", <<IntMoreThan("button_pressed", 0)>>)>>,
                      <<SetFact(Fact_Bool("beat_one", TRUE))>>),
      StoryBeat_build("both", <<Rule_new("r2", <<IntMoreThan("button_pressed", 1)>>),
                                Rule_new("r3", <<BoolEquals("beat_one", TRUE)>>)>>, <<>>),
      StoryBeat_build("free", <<>>, <<>>) }

StoriesUnderTest ==
    {Story_build("story", beats) :
        beats \in UNION {[1..n -> BeatsUnderTest] : n \in 0..MaxBeats}}

EvaluateActiveBeat(fs) ==
    /\ stories' = [stories EXCEPT ![1] = Story_evaluate_active_beat(@, fs)]
    /\ call' = [op |-> "evaluate_active_beat", key |-> "", value |-> fs]
    /\ UNCHANGED <<facts, updated_facts, panicked, drained, rules, rule_states, last_pass, fact_updated,
                   beat_finished, ran, pressed, applied, fresh, saw>>

InitStory ==
    /\ InitResources
    /\ \E story \in StoriesUnderTest : stories = <<story>>
    /\ rules = EmptyMap
    /\ rule_states = EmptyMap
    /\ last_pass = NoPass(EmptyMap)
    /\ applied = EmptyMap

NextStory == \E fs \in Snapshots : EvaluateActiveBeat(fs)

SpecStory == InitStory /\ [][NextStory]_vars

-----------------------------------------------------------------------------
(* A caller that holds one story and evaluates it and its beats directly:
   beats and their finished flags are public fields of the story *)

\* beat.evaluate(facts) on the beat at position i of the story
EvaluateBeatAt(i, fs) ==
    /\ i \in 1..Len(stories[1].beats)
    /\ stories' = [stories EXCEPT ![1].beats[i] = StoryBeat_evaluate(@, fs)]
    /\ call' = [op |-> "StoryBeat::evaluate", key |-> "", value |-> fs]
    /\ UNCHANGED <<facts, updated_facts, panicked, drained, rules, rule_states, last_pass, fact_updated,
                   beat_finished, ran, pressed, applied, fresh, saw>>

\* the facts, beats and story that test_story_evaluation constructs
TestFacts ==
    [key \in {"score", "player", "is_alive"} |->
        CASE key = "score" -> Fact_Int("score", 42)
          [] key = "player" -> Fact_String("player", "Alice")
          [] key = "is_alive" -> Fact_Bool("is_alive", TRUE)]

TestStory ==
    [name |-> "MyStory",
     beats |-> <<[name |-> "Beat1",
                  rules |-> <<Rule_new("Rule1", <<IntEquals("score", 42),
                                                  StringEquals("player", "Alice"),
                                                  BoolEquals("is_alive", TRUE)>>)>>,
                  effects |-> <<>>, finished |-> TRUE],
                 [name |-> "Beat2",
                  rules |-> <<Rule_new("Rule2", <<IntMoreThan("score", 50)>>)>>,
                  effects |-> <<>>, finished |-> FALSE]>>,
     active_beat_index |-> 0]

\* the test evaluates a clone of its story twice against its facts; call keeps
\* the index it reads after the first call and is_finished() after the second
test_story_evaluation ==
    LET once == Story_evaluate_active_beat(TestStory, TestFacts)
        twice == Story_evaluate_active_beat(once, TestFacts)
    IN  /\ call' = [op |-> "test_story_evaluation", key |-> once.active_beat_index,
                    value |-> Story_is_finished(twice)]
        /\ UNCHANGED <<facts, updated_facts, panicked, drained, stories, rules, rule_states, last_pass,
                       fact_updated, beat_finished, ran, pressed, applied, fresh, saw>>

\* the most beats of a story whose beats are evaluated directly
MaxDirect == 2

InitBeat ==
    /\ InitResources
    /\ \E story \in StoriesUnderTest : Len(story.beats) <= MaxDirect /\ stories = <<story>>
    /\ rules = EmptyMap
    /\ rule_states = EmptyMap
    /\ last_pass = NoPass(EmptyMap)
    /\ applied = EmptyMap

NextBeat ==
    \/ \E fs \in Snapshots : EvaluateActiveBeat(fs)
    \/ \E i \in 1..MaxDirect, fs \in Snapshots : EvaluateBeatAt(i, fs)
    \/ test_story_evaluation

SpecBeat == InitBeat /\ [][NextBeat]_vars

-----------------------------------------------------------------------------
(* SpecEval: Condition::evaluate, Rule::evaluate and StoryBeat::evaluate are  *)
(* called on a snapshot that holds, under each name, nothing or a Value of    *)
(* one of the four variants                                                   *)

EvalInts == {MinI32, -1, 0, 1, MaxI32}

EvalFacts(key) ==
    {Fact_Int(key, v) : v \in EvalInts} \cup {Fact_String(key, v) : v \in StrVals}
        \cup {Fact_Bool(key, v) : v \in BOOLEAN}
        \cup {Fact_StringList(key, v) : v \in SUBSET Tags}

EvalSnapshots ==
    UNION {{fs \in [D -> UNION {EvalFacts(key) : key \in Names}] :
                \A key \in D : NameOf(fs[key]) = key} : D \in SUBSET Names}

ConditionsUnderTest ==
    UNION {{IntEquals(key, v) : v \in EvalInts} \cup {IntMoreThan(key, v) : v \in EvalInts}
             \cup {IntLessThan(key, v) : v \in EvalInts}
             \cup {StringEquals(key, v) : v \in StrVals}
             \cup {BoolEquals(key, v) : v \in BOOLEAN}
             \cup {ListContains(key, v) : v \in Tags} : key \in Names}

\* the conditions the rules under test are made of
RuleConditions ==
    {IntMoreThan("button_pressed", 0), BoolEquals("beat_one", TRUE),
     StringEquals("beat_one", "a"), ListContains("button_pressed", "vip")}

RulesUnderTest ==
    {Rule_new("rule", conditions) :
        conditions \in UNION {[1..n -> RuleConditions] : n \in 0..MaxConds}}

\* the rules the beats under evaluation are made of
BeatRules ==
    {Rule_new("r0", <<>>),
     Rule_new("r1", <<IntMoreThan("button_pressed", 0)>>),
     Rule_new("r2", <<BoolEquals("beat_one", TRUE), IntLessThan("button_pressed", 1)>>)}

\* finished is a public field: a beat may come in finished
BeatsEvaluated ==
    {[StoryBeat_build("beat", beat_rules, <<>>) EXCEPT !.finished = finished] :
        beat_rules \in UNION {[1..n -> BeatRules] : n \in 0..MaxRules},
        finished \in BOOLEAN}

EvaluateCondition(c) ==
    /\ call' = [op |-> "Condition::evaluate", key |-> c, value |-> Condition_evaluate(c, facts)]
    /\ UNCHANGED <<StoreVars, drained, EngineVars>>

EvaluateRule(rule) ==
    /\ call' = [op |-> "Rule::evaluate", key |-> rule, value |-> Rule_evaluate(rule, facts)]
    /\ UNCHANGED <<StoreVars, drained, EngineVars>>

EvaluateBeat(beat) ==
    /\ call' = [op |-> "StoryBeat::evaluate", key |-> beat,
                value |-> StoryBeat_evaluate(beat, facts)]
    /\ UNCHANGED <<StoreVars, drained, EngineVars>>

\* the store is in a state it has after a drain: facts written, nothing dirty
InitEval ==
    /\ facts \in EvalSnapshots
    /\ updated_facts = {}
    /\ panicked = FALSE
    /\ call = NoCall
    /\ drained = {}
    /\ fact_updated = [rule_evaluator |-> 0, story_evaluator |-> 0]
    /\ beat_finished = <<>>
    /\ ran = {}
    /\ pressed = FALSE
    /\ fresh = [beats |-> {}, facts |-> {}]
    /\ saw = {}
    /\ stories = <<>>
    /\ rules = EmptyMap
    /\ rule_states = EmptyMap
    /\ last_pass = NoPass(EmptyMap)
    /\ applied = EmptyMap

NextEval ==
    \/ \E c \in ConditionsUnderTest : EvaluateCondition(c)
    \/ \E rule \in RulesUnderTest : EvaluateRule(rule)
    \/ \E beat \in BeatsEvaluated : EvaluateBeat(beat)

SpecEval == InitEval /\ [][NextEval]_vars

-----------------------------------------------------------------------------
(* StoryEngine and RuleEngine *)

add_story(engine_stories, story) == Append(engine_stories, story)

\* a variant of evaluate_stories: the loop ends at the first finished story
RECURSIVE evaluate_stories_until_finished(_, _)
evaluate_stories_until_finished(engine_stories, fs) ==
    IF engine_stories = <<>> \/ Story_is_finished(Head(engine_stories))
    THEN engine_stories
    ELSE <<Story_evaluate_active_beat(Head(engine_stories), fs)>>
             \o evaluate_stories_until_finished(Tail(engine_stories), fs)

\* for story in &mut self.stories { story.evaluate_active_beat(facts); }
RECURSIVE evaluate_stories(_, _)
evaluate_stories(engine_stories, fs) ==
    IF engine_stories = <<>>
    THEN <<>>
    ELSE <<Story_evaluate_active_beat(Head(engine_stories), fs)>>
             \o evaluate_stories(Tail(engine_stories), fs)

\* self.stories.iter().all(|story| story.is_finished())
all_stories_finished(engine_stories) ==
    \A s \in 1..Len(engine_stories) : Story_is_finished(engine_stories[s])

-----------------------------------------------------------------------------
(* A caller that owns a story engine, adds stories to it, evaluates them all
   against snapshots and asks whether all of them are finished *)

\* the most stories the engine is given
MaxStories == 2

BeatNamed(name) == CHOOSE beat \in BeatsUnderTest : beat.name = name

\* a story without beats, a story of one beat and a story of two
EngineStories ==
    { Story_build("none", <<>>),
      Story_build("one", <<BeatNamed("pressed")>>),
      Story_build("two", <<BeatNamed("pressed"), BeatNamed("both")>>) }

\* snapshots of integers and booleans
EngineSnapshots ==
    {fs \in Snapshots : \A key \in DOMAIN fs : Variant(fs[key]) # "String"}

AddStory(story) ==
    /\ Len(stories) < MaxStories
    /\ stories' = add_story(stories, story)
    /\ call' = [op |-> "add_story", key |-> stories, value |-> story]
    /\ UNCHANGED <<facts, updated_facts, panicked, drained, rules, rule_states, last_pass, fact_updated,
                   beat_finished, ran, pressed, applied, fresh, saw>>

\* a variant of EvaluateStories: the call also notes in the store whether all
\* stories are finished
EvaluateStories_notes(fs) ==
    /\ stories' = evaluate_stories(stories, fs)
    /\ call' = [op |-> "evaluate_stories", key |-> stories, value |-> fs]
    /\ SetStore(store_bool(Store, "all_finished",
                           all_stories_finished(evaluate_stories(stories, fs))))
    /\ UNCHANGED <<drained, rules, rule_states, last_pass, fact_updated,
                   beat_finished, ran, pressed, applied, fresh, saw>>

\* call keeps the stories the engine held before the call, and the snapshot
EvaluateStories(fs) ==
    /\ stories' = evaluate_stories(stories, fs)
    /\ call' = [op |-> "evaluate_stories", key |-> stories, value |-> fs]
    /\ UNCHANGED <<facts, updated_facts, panicked, drained, rules, rule_states, last_pass, fact_updated,
                   beat_finished, ran, pressed, applied, fresh, saw>>

AllStoriesFinished ==
    /\ call' = [op |-> "all_stories_finished", key |-> stories,
                value |-> all_stories_finished(stories)]
    /\ UNCHANGED <<facts, updated_facts, panicked, drained, stories, rules, rule_states, last_pass,
                   fact_updated, beat_finished, ran, pressed, applied, fresh, saw>>

InitEngine ==
    /\ InitResources
    /\ stories = <<>>
    /\ rules = EmptyMap
    /\ rule_states = EmptyMap
    /\ last_pass = NoPass(EmptyMap)
    /\ applied = EmptyMap

NextEngine ==
    \/ \E story \in EngineStories : AddStory(story)
    \/ \E fs \in EngineSnapshots : EvaluateStories(fs)
    \/ AllStoriesFinished

SpecEngine == InitEngine /\ [][NextEngine]_vars

RuleEngine_new == [rules |-> EmptyMap, rule_states |-> EmptyMap]

\* a variant of add_rule: the rule is stored and no state is tracked for it
add_rule_untracked(engine, rule) ==
    [rules |-> Insert(engine.rules, rule.name, rule),
     rule_states |-> engine.rule_states]

\* a variant of add_rule: a rule added again keeps its tracked state
add_rule_keeps_state(engine, rule) ==
    [rules |-> Insert(engine.rules, rule.name, rule),
     rule_states |-> IF rule.name \in DOMAIN engine.rule_states THEN engine.rule_states
                     ELSE Insert(engine.rule_states, rule.name, FALSE)]

add_rule(engine, rule) ==
    [rules |-> Insert(engine.rules, rule.name, rule),
     rule_states |-> Insert(engine.rule_states, rule.name, FALSE)]

\* a variant of evaluate_rules: only the rules that became true are returned
evaluate_rules_only_rising(engine, fs) ==
    LET flipped == {name \in DOMAIN engine.rules :
                       engine.rule_states[name] # Rule_evaluate(engine.rules[name], fs)}
    IN  [engine |-> [engine EXCEPT !.rule_states =
                        [name \in DOMAIN @ |-> IF name \in flipped THEN ~@[name] ELSE @[name]]],
         updated_rule_states |-> {name \in flipped : ~engine.rule_states[name]}]

\* a variant of evaluate_rules: the flipped state is returned but not stored
evaluate_rules_forgets(engine, fs) ==
    LET flipped == {name \in DOMAIN engine.rules :
                       engine.rule_states[name] # Rule_evaluate(engine.rules[name], fs)}
    IN  [engine |-> engine, updated_rule_states |-> flipped]

\* the rules do not read each other's state, so the order of the map's iteration
\* does not matter
evaluate_rules(engine, fs) ==
    LET flipped == {name \in DOMAIN engine.rules :
                       engine.rule_states[name] # Rule_evaluate(engine.rules[name], fs)}
    IN  [engine |-> [engine EXCEPT !.rule_states =
                        [name \in DOMAIN @ |-> IF name \in flipped THEN ~@[name] ELSE @[name]]],
         updated_rule_states |-> flipped]

-----------------------------------------------------------------------------
(* SpecRules: a driver adds rules, writes score and calls evaluate_rules *)

\* R1 of Scenario A, a second rule under the name R1, a rule on equality and a
\* rule without conditions
RulesAdded ==
    {Rule_new("R1", <<IntMoreThan("score", 3)>>),
     Rule_new("R1", <<IntLessThan("score", 3)>>),
     Rule_new("R2", <<IntEquals("score", 4)>>),
     Rule_new("R0", <<>>)}

Scores == {0, 4}

AddRule(rule) ==
    /\ ~panicked
    /\ rules' = add_rule([rules |-> rules, rule_states |-> rule_states], rule).rules
    /\ rule_states' =
          add_rule([rules |-> rules, rule_states |-> rule_states], rule).rule_states
    /\ call' = [op |-> "add_rule", key |-> rule.name, value |-> rule]
    /\ last_pass' =
          [before |-> Insert(last_pass.before, rule.name, FALSE),
           now |-> Insert(last_pass.now, rule.name, FALSE),
           readded |-> IF rule.name \in DOMAIN rule_states /\ rule_states[rule.name]
                       THEN last_pass.readded \cup {rule.name} ELSE last_pass.readded]
    /\ UNCHANGED <<StoreVars, drained, stories, fact_updated, beat_finished, ran, pressed,
                   applied, fresh, saw>>

\* call keeps the tracked states the call found, and the returned set
EvaluateRules ==
    /\ ~panicked
    /\ rule_states' =
          evaluate_rules([rules |-> rules, rule_states |-> rule_states], facts).engine.rule_states
    /\ call' = [op |-> "evaluate_rules",
                key |-> [rule_states |-> rule_states, readded |-> last_pass.readded],
                value |-> evaluate_rules([rules |-> rules, rule_states |-> rule_states],
                                         facts).updated_rule_states]
    /\ last_pass' = PassMade(last_pass, rules, facts)
    /\ UNCHANGED <<StoreVars, drained, stories, rules, fact_updated, beat_finished, ran,
                   pressed, applied, fresh, saw>>

NextRules ==
    \/ \E rule \in RulesAdded : AddRule(rule)
    \/ \E value \in Scores : StoreInt("score", value)
    \/ EvaluateRules

SpecRules == InitStore /\ [][NextRules]_vars

-----------------------------------------------------------------------------
(* Effects and the return value of evaluate_active_beat, as the callers in      *)
(* systems.rs use them (the revision of data.rs that defines them is not among *)
(* the sources)                                                                *)

\* Effect::apply: the typed setter of the fact's variant
Effect_apply(st, effect) ==
    CASE Variant(effect.fact) = "Int" ->
            store_int(st, NameOf(effect.fact), Payload(effect.fact))
      [] Variant(effect.fact) = "String" ->
            store_string(st, NameOf(effect.fact), Payload(effect.fact))
      [] Variant(effect.fact) = "Bool" ->
            store_bool(st, NameOf(effect.fact), Payload(effect.fact))

-----------------------------------------------------------------------------
(* A caller that applies effects made by EffectBuilder to the store, and
   drains the dirty set between them *)

EffectNames == {"beat_one"}

\* set_fact_int, set_fact_string, set_fact_bool
EffectsUnderTest ==
    {SetFact(fact) :
        fact \in UNION {{Fact_Int(key, v) : v \in IntVals} \cup {Fact_String(key, v) : v \in StrVals}
                            \cup {Fact_Bool(key, v) : v \in BOOLEAN} : key \in EffectNames}}

\* effect.apply(&mut cool_fact_store); call keeps the store as it was before
ApplyEffect(effect) ==
    /\ ~panicked
    /\ SetStore(Effect_apply(Store, effect))
    /\ call' = [op |-> "Effect::apply", key |-> Store, value |-> effect.fact]
    /\ UNCHANGED <<drained, EngineVars>>

NextEffect ==
    \/ \E effect \in EffectsUnderTest : ApplyEffect(effect)
    \/ DrainUpdated

SpecEffect == InitStore /\ [][NextEffect]_vars

\* Option<StoryBeat>: the beat that the call has just finished
Story_evaluate_active_beat_returns(story, fs) ==
    IF story.active_beat_index < Len(story.beats)
    THEN LET active_beat == StoryBeat_evaluate(story.beats[story.active_beat_index + 1], fs)
         IN  IF active_beat.finished THEN Some(active_beat) ELSE None
    ELSE None

\* struct StoryBeatFinished; of the story's clone only the name is kept
StoryBeatFinished(story, beat) == [story |-> story.name, beat |-> beat]

-----------------------------------------------------------------------------
(* Spec: the systems StoryPlugin adds to Update. They are added as one tuple  *)
(* with no ordering between them, so each runs once per frame in an order the *)
(* schedule does not fix. An event sent in a frame can be read in that frame  *)
(* and in the next one; every reader runs in every frame, so each reader      *)
(* meets each event once: the model keeps the events a reader has not read.   *)

Systems == {"fact_update_event_broadcaster", "rule_evaluator", "button_system",
            "story_evaluator", "story_beat_effect_applier"}

Runs(system) ==
    /\ ~panicked
    /\ system \notin ran
    /\ ran' = ran \cup {system}

\* a variant of fact_update_event_broadcaster: the events reach rule_evaluator only
fact_update_event_broadcaster_one_reader ==
    /\ Runs("fact_update_event_broadcaster")
    /\ drained' = drain(updated_facts).yielded
    /\ updated_facts' = drain(updated_facts).left
    /\ fact_updated' = [fact_updated EXCEPT !.rule_evaluator =
                           @ + Cardinality(drain(updated_facts).yielded)]
    /\ UNCHANGED <<facts, panicked, stories, rules, rule_states, last_pass, call, beat_finished,
                   pressed, applied, fresh, saw>>

\* systems.rs 275-282: every drained fact is sent to every reader of FactUpdated
fact_update_event_broadcaster ==
    /\ Runs("fact_update_event_broadcaster")
    /\ drained' = drain(updated_facts).yielded
    /\ updated_facts' = drain(updated_facts).left
    /\ fact_updated' = [reader \in DOMAIN fact_updated |->
                           fact_updated[reader] + Cardinality(drain(updated_facts).yielded)]
    /\ UNCHANGED <<facts, panicked, stories, rules, rule_states, last_pass, call, beat_finished,
                   pressed, applied, fresh, saw>>

\* the facts a rule of the engine reads
FactsRead(rs) ==
    UNION {{FactName(rs[name].conditions[i]) : i \in 1..Len(rs[name].conditions)} :
               name \in DOMAIN rs}

\* evaluate_rules once for every FactUpdated event read
RECURSIVE EvaluateRulesTimes(_, _, _)
EvaluateRulesTimes(n, engine, fs) ==
    IF n = 0 THEN engine
    ELSE EvaluateRulesTimes(n - 1, evaluate_rules(engine, fs).engine, fs)

\* struct RuleUpdated; how many of them the loop over n FactUpdated events sends
\* for each rule: every pass of the loop sends one for each name evaluate_rules
\* returns
RECURSIVE RuleUpdatedSent(_, _, _)
\* a variant of RuleUpdatedSent: every pass of the loop sends what the first sends
RuleUpdatedSent_every_event(n, engine, fs) ==
    [name \in DOMAIN engine.rules |->
        IF name \in evaluate_rules(engine, fs).updated_rule_states THEN n ELSE 0]

RuleUpdatedSent(n, engine, fs) ==
    IF n = 0 THEN [name \in DOMAIN engine.rules |-> 0]
    ELSE [name \in DOMAIN engine.rules |->
             RuleUpdatedSent(n - 1, evaluate_rules(engine, fs).engine, fs)[name]
                + (IF name \in evaluate_rules(engine, fs).updated_rule_states THEN 1 ELSE 0)]

\* the rules that the facts satisfy
SatisfiedBy(rs, fs) == {name \in DOMAIN rs : Rule_evaluate(rs[name], fs)}

\* story.rs 621-638; call keeps what the system found (the events to read, the
\* tracked states and the rules that the facts satisfy) and the RuleUpdated
\* events it sent
rule_evaluator ==
    /\ Runs("rule_evaluator")
    /\ rule_states' = EvaluateRulesTimes(fact_updated.rule_evaluator,
                          [rules |-> rules, rule_states |-> rule_states], facts).rule_states
    /\ last_pass' = PassesMade(fact_updated.rule_evaluator, last_pass, rules, facts)
    /\ fact_updated' = [fact_updated EXCEPT !.rule_evaluator = 0]
    /\ saw' = IF fact_updated.rule_evaluator > 0 /\ FactsRead(rules) \cap fresh.facts # {}
              THEN saw \cup {"rule_evaluator"} ELSE saw
    /\ call' = [op |-> "rule_evaluator",
                key |-> [fact_updated |-> fact_updated.rule_evaluator,
                         rule_states |-> rule_states,
                         satisfied |-> SatisfiedBy(rules, facts)],
                value |-> RuleUpdatedSent(fact_updated.rule_evaluator,
                              [rules |-> rules, rule_states |-> rule_states], facts)]
    /\ UNCHANGED <<facts, updated_facts, panicked, stories, rules, drained,
                   beat_finished, pressed, applied, fresh>>

\* systems.rs 295-330: a change to Interaction::Pressed adds 1 to button_pressed
button_system ==
    /\ Runs("button_system")
    /\ \E interaction \in {"Pressed", "None"} :
          IF interaction = "Pressed"
          THEN /\ get_int(facts, "button_pressed") \in {None} \cup {Some(n) : n \in 0..(MaxPresses - 1)}
               /\ \E st \in add_to_int(Store, "button_pressed", 1) : SetStore(st)
               /\ pressed' = TRUE
          ELSE UNCHANGED <<facts, updated_facts, panicked, pressed>>
    /\ UNCHANGED <<stories, rules, rule_states, last_pass, call, drained, fact_updated, beat_finished,
                   applied, fresh, saw>>

\* the events the loop over the stories sends, in the order of the stories
RECURSIVE FinishedEvents(_, _, _)
FinishedEvents(ss, s, fs) ==
    IF s > Len(ss) THEN <<>>
    ELSE LET returned == Story_evaluate_active_beat_returns(ss[s], fs)
             story == Story_evaluate_active_beat(ss[s], fs)
         IN  (IF returned = None THEN <<>>
              ELSE <<StoryBeatFinished(story, returned[1])>>)
                 \o FinishedEvents(ss, s + 1, fs)

\* the facts the guard rules of the active beats read
ActiveBeatReads(ss) ==
    UNION {UNION {{FactName(ss[s].beats[ss[s].active_beat_index + 1].rules[r].conditions[i]) :
                      i \in 1..Len(ss[s].beats[ss[s].active_beat_index + 1].rules[r].conditions)} :
                  r \in 1..Len(ss[s].beats[ss[s].active_beat_index + 1].rules)} :
           s \in {t \in 1..Len(ss) : ~Story_is_finished(ss[t])}}

\* a variant of story_evaluator: a story is evaluated again in the same pass
story_evaluator_cascades ==
    /\ Runs("story_evaluator")
    /\ IF fact_updated.story_evaluator > 0
       THEN /\ fact_updated' = [fact_updated EXCEPT !.story_evaluator = 0]
            /\ stories' = [s \in 1..Len(stories) |->
                              Story_evaluate_active_beat(
                                  Story_evaluate_active_beat(stories[s], facts), facts)]
            /\ beat_finished' = beat_finished \o FinishedEvents(stories, 1, facts)
            /\ fresh' = [fresh EXCEPT !.beats = @ \cup
                            {FinishedEvents(stories, 1, facts)[e].beat.name :
                                e \in 1..Len(FinishedEvents(stories, 1, facts))}]
            /\ saw' = IF ActiveBeatReads(stories) \cap fresh.facts # {}
                      THEN saw \cup {"story_evaluator"} ELSE saw
       ELSE UNCHANGED <<fact_updated, stories, beat_finished, fresh, saw>>
    /\ UNCHANGED <<facts, updated_facts, panicked, rules, rule_states, last_pass, call, drained,
                   pressed, applied>>

\* systems.rs 377-397
story_evaluator ==
    /\ Runs("story_evaluator")
    /\ IF fact_updated.story_evaluator > 0
       THEN /\ fact_updated' = [fact_updated EXCEPT !.story_evaluator = 0]
            /\ stories' = [s \in 1..Len(stories) |->
                              Story_evaluate_active_beat(stories[s], facts)]
            /\ beat_finished' = beat_finished \o FinishedEvents(stories, 1, facts)
            /\ fresh' = [fresh EXCEPT !.beats = @ \cup
                            {FinishedEvents(stories, 1, facts)[e].beat.name :
                                e \in 1..Len(FinishedEvents(stories, 1, facts))}]
            /\ saw' = IF ActiveBeatReads(stories) \cap fresh.facts # {}
                      THEN saw \cup {"story_evaluator"} ELSE saw
       ELSE UNCHANGED <<fact_updated, stories, beat_finished, fresh, saw>>
    /\ UNCHANGED <<facts, updated_facts, panicked, rules, rule_states, last_pass, call, drained,
                   pressed, applied>>

\* for effect in event.beat.effects.iter() { effect.apply(&mut cool_fact_store) }
RECURSIVE ApplyEffects(_, _)
ApplyEffects(st, effects) ==
    IF effects = <<>> \/ st.panicked THEN st
    ELSE ApplyEffects(Effect_apply(st, Head(effects)), Tail(effects))

\* for event in story_beat_reader.read() { ... }
RECURSIVE ApplyEvents(_, _)
ApplyEvents(st, events) ==
    IF events = <<>> \/ st.panicked THEN st
    ELSE ApplyEvents(ApplyEffects(st, Head(events).beat.effects), Tail(events))

\* the names under which two fact maps differ
Changed(before, after) ==
    {key \in DOMAIN after : key \notin DOMAIN before \/ before[key] # after[key]}

\* the events of the beats that finished in this frame
FreshEvents(events) ==
    SelectSeq(events, LAMBDA event : event.beat.name \in fresh.beats)

\* a variant of story_beat_effect_applier: the events are applied and stay unread
story_beat_effect_applier_rereads ==
    /\ Runs("story_beat_effect_applier")
    /\ SetStore(ApplyEvents(Store, beat_finished))
    /\ UNCHANGED beat_finished
    /\ applied' = [name \in DOMAIN applied |->
                      applied[name] + Len(SelectSeq(beat_finished,
                                              LAMBDA event : event.beat.name = name))]
    /\ fresh' = [fresh EXCEPT !.facts = @ \cup
                    Changed(facts, ApplyEvents(Store, FreshEvents(beat_finished)).facts)]
    /\ UNCHANGED <<stories, rules, rule_states, last_pass, call, drained, fact_updated, pressed, saw>>

\* systems.rs 399-408
story_beat_effect_applier ==
    /\ Runs("story_beat_effect_applier")
    /\ SetStore(ApplyEvents(Store, beat_finished))
    /\ beat_finished' = <<>>
    /\ applied' = [name \in DOMAIN applied |->
                      applied[name] + Len(SelectSeq(beat_finished,
                                              LAMBDA event : event.beat.name = name))]
    /\ fresh' = [fresh EXCEPT !.facts = @ \cup
                    Changed(facts, ApplyEvents(Store, FreshEvents(beat_finished)).facts)]
    /\ UNCHANGED <<stories, rules, rule_states, last_pass, call, drained, fact_updated, pressed, saw>>

\* the frame ends when every system has run; call is the record of one frame
EndFrame ==
    /\ ~panicked
    /\ ran = Systems
    /\ ran' = {}
    /\ pressed' = FALSE
    /\ fresh' = [beats |-> {}, facts |-> {}]
    /\ saw' = {}
    /\ call' = NoRuleEvaluator
    /\ UNCHANGED <<facts, updated_facts, panicked, stories, rules, rule_states, last_pass,
                   drained, fact_updated, beat_finished, applied>>

\* systems.rs 365-375
setup_rules ==
    add_rule(RuleEngine_new,
             Rule_new("button_pressed_rule", <<IntMoreThan("button_pressed", 5)>>))

\* the engine as setup_rules leaves it, and the engine after one more add_rule,
\* of a rule on the fact that the first beat's effect sets
RuleEngines ==
    {setup_rules,
     add_rule(setup_rules, Rule_new("beat_one_rule", <<BoolEquals("beat_one", TRUE)>>))}

-----------------------------------------------------------------------------
(* The definition parser (parsing.rs). A text is a sequence of characters; a
   parser's result is Ok with the rest of the input and a value, Err, or a
   panic of the process *)

Ok(rest, value) == [ok |-> TRUE, panic |-> FALSE, rest |-> rest, value |-> <<value>>]
Err == [ok |-> FALSE, panic |-> FALSE, rest |-> <<>>, value |-> <<>>]
ParsePanic == [ok |-> FALSE, panic |-> TRUE, rest |-> <<>>, value |-> <<>>]

Value(result) == result.value[1]

SpaceChars == {" ", "\t"}
DigitChars == <<"0", "1", "2", "3", "4", "5", "6", "7", "8", "9">>
Digits == {DigitChars[i] : i \in 1..Len(DigitChars)}
Letters ==
    {"a", "b", "c", "d", "e", "f", "g", "h", "i", "j", "k", "l", "m", "n", "o", "p", "q", "r",
     "s", "t", "u", "v", "w", "x", "y", "z", "A", "B", "C", "D", "E", "F", "G", "H", "I", "J",
     "K", "L", "M", "N", "O", "P", "Q", "R", "S", "T", "U", "V", "W", "X", "Y", "Z"}
Alphanumeric == Letters \cup Digits
\* |c: char| c.is_alphanumeric() || c == '_'
NameChars == Alphanumeric \cup {"_"}

Drop(input, n) == SubSeq(input, n + 1, Len(input))

\* the number of leading characters of input that are in chars
RECURSIVE Span(_, _)
Span(chars, input) ==
    IF input # <<>> /\ Head(input) \in chars THEN 1 + Span(chars, Tail(input)) ELSE 0

\* nom::bytes::complete::tag
tag(literal, input) ==
    IF Len(input) >= Len(literal) /\ SubSeq(input, 1, Len(literal)) = literal
    THEN Ok(Drop(input, Len(literal)), literal)
    ELSE Err

\* nom::bytes::complete::take_while: the longest prefix in chars, which may be empty
take_while(chars, input) ==
    Ok(Drop(input, Span(chars, input)), SubSeq(input, 1, Span(chars, input)))

\* the longest prefix in chars, which must not be empty
take_while1(chars, input) ==
    IF Span(chars, input) = 0 THEN Err ELSE take_while(chars, input)

\* nom::character::complete: spaces and tabs, never a line ending
space0(input) == take_while(SpaceChars, input)
space1(input) == take_while1(SpaceChars, input)
alphanumeric1(input) == take_while1(Alphanumeric, input)

DigitValue(c) == (CHOOSE i \in 1..Len(DigitChars) : DigitChars[i] = c) - 1

\* digits read as an i32 with the sign given, None when it leaves the i32 range
RECURSIVE Accumulate(_, _, _)
Accumulate(digits, negative, acc) ==
    IF digits = <<>> THEN Some(acc)
    ELSE LET d == DigitValue(Head(digits))
         IN  IF negative
             THEN IF acc > -(MaxI32 \div 10) \/ (acc = -(MaxI32 \div 10) /\ d <= (MaxI32 % 10) + 1)
                  THEN Accumulate(Tail(digits), negative, acc * 10 - d) ELSE None
             ELSE IF acc < MaxI32 \div 10 \/ (acc = MaxI32 \div 10 /\ d <= MaxI32 % 10)
                  THEN Accumulate(Tail(digits), negative, acc * 10 + d) ELSE None

\* nom::character::complete::i32: an optional sign and one or more digits
i32(input) ==
    LET signed == input # <<>> /\ Head(input) \in {"+", "-"}
        body == IF signed THEN Tail(input) ELSE input
        n == Span(Digits, body)
        number == Accumulate(SubSeq(body, 1, n), signed /\ Head(input) = "-", 0)
    IN  IF n = 0 \/ number = None THEN Err ELSE Ok(Drop(body, n), number[1])

\* str::parse::<i32>: the whole string is an optional sign and digits
str_parse_i32(s) == IF i32(s).ok /\ i32(s).rest = <<>> THEN Some(Value(i32(s))) ELSE None

\* str::parse::<bool>: the whole string is true or false
str_parse_bool(s) ==
    IF s = <<"t", "r", "u", "e">> THEN Some(TRUE)
    ELSE IF s = <<"f", "a", "l", "s", "e">> THEN Some(FALSE) ELSE None

\* the number of leading characters of input that differ from c
RECURSIVE SpanUntil(_, _)
SpanUntil(c, input) ==
    IF input # <<>> /\ Head(input) # c THEN 1 + SpanUntil(c, Tail(input)) ELSE 0

\* delimited(char('"'), take_until("\""), char('"'))
quoted(input) ==
    IF input = <<>> \/ Head(input) # "\"" THEN Err
    ELSE LET n == SpanUntil("\"", Tail(input))
         IN  IF n + 1 < Len(input)
             THEN Ok(Drop(input, n + 2), SubSeq(input, 2, n + 1))
             ELSE Err

\* alt((tag("true"), tag("false")))
true_or_false(input) ==
    IF tag(<<"t", "r", "u", "e">>, input).ok THEN tag(<<"t", "r", "u", "e">>, input)
    ELSE tag(<<"f", "a", "l", "s", "e">>, input)

tag_IntEquals ==
    <<"I", "n", "t", "E", "q", "u", "a", "l", "s", "(">>
tag_StringEquals ==
    <<"S", "t", "r", "i", "n", "g", "E", "q", "u", "a", "l", "s", "(">>
tag_BoolEquals ==
    <<"B", "o", "o", "l", "E", "q", "u", "a", "l", "s", "(">>
tag_IntMoreThan ==
    <<"I", "n", "t", "M", "o", "r", "e", "T", "h", "a", "n", "(">>
tag_IntLessThan ==
    <<"I", "n", "t", "L", "e", "s", "s", "T", "h", "a", "n", "(">>
tag_ListContains ==
    <<"L", "i", "s", "t", "C", "o", "n", "t", "a", "i", "n", "s", "(">>
tag_Condition ==
    <<"-", " ", "C", "o", "n", "d", "i", "t", "i", "o", "n", ":", " ">>
tag_Effect ==
    <<"-", " ", "E", "f", "f", "e", "c", "t", ":", " ", "S", "e", "t", "F", "a", "c", "t",
      " ">>
tag_Rule ==
    <<"-", " ", "R", "u", "l", "e", ":", " ">>
tag_StoryBeat ==
    <<"#", "#", " ", "S", "t", "o", "r", "y", "B", "e", "a", "t", ":", " ">>
tag_Story ==
    <<"#", " ", "S", "t", "o", "r", "y", ":", " ">>
rule_name ==
    <<"r", "u", "l", "e", "_", "n", "a", "m", "e">>

bool_value(input) ==
    IF true_or_false(input).ok
    THEN Ok(true_or_false(input).rest, Value(true_or_false(input)) = <<"t", "r", "u", "e">>)
    ELSE Err

\* the parser of the expected value in an arm of parse_condition
expected_value_of(kind, input) ==
    CASE kind \in {"IntEquals", "IntMoreThan", "IntLessThan"} -> i32(input)
      [] kind \in {"StringEquals", "ListContains"} -> quoted(input)
      [] kind = "BoolEquals" -> bool_value(input)

\* sequence::tuple, one parser after the other: next is the result of the
\* next parser on parsed.rest; the value is the sequence of the parsers' values
and_then(parsed, next) ==
    IF ~parsed.ok THEN parsed
    ELSE IF ~next.ok THEN next
    ELSE Ok(next.rest, Append(Value(parsed), Value(next)))

\* branch::alt: the result of the first parser that accepts
alt(results) ==
    IF \E i \in 1..Len(results) : results[i].ok
    THEN results[CHOOSE i \in 1..Len(results) :
                    results[i].ok /\ \A j \in 1..(i - 1) : ~results[j].ok]
    ELSE Err

\* |(_, fact_name, _, expected_value, _)| Condition::<kind> { fact_name, expected_value }
condition_of(kind, fields) ==
    IF fields.ok THEN Ok(fields.rest, <<kind, Value(fields)[2], Value(fields)[4]>>) ELSE fields

\* one arm of parse_condition: tag(kind), alphanumeric1, tag(", "), the value, tag(")")
condition_arm(kind, literal, input) ==
    condition_of(kind,
        LET opened == and_then(Ok(input, <<>>), tag(literal, input))
            fact_name == and_then(opened, alphanumeric1(opened.rest))
            comma == and_then(fact_name, tag(<<",", " ">>, fact_name.rest))
            expected_value == and_then(comma, expected_value_of(kind, comma.rest))
        IN  and_then(expected_value, tag(<<")">>, expected_value.rest)))

\* alt of the six call forms
parse_condition(input) ==
    alt(<<condition_arm("IntEquals", tag_IntEquals, input),
          condition_arm("StringEquals", tag_StringEquals, input),
          condition_arm("BoolEquals", tag_BoolEquals, input),
          condition_arm("IntMoreThan", tag_IntMoreThan, input),
          condition_arm("IntLessThan", tag_IntLessThan, input),
          condition_arm("ListContains", tag_ListContains, input)>>)

\* let fact = match fact_type { .. }: fact_name is the value of the third
\* parser, space1, and fact_value the value of the fourth, take_while
effect_of(fact_type, fact_name, fact_value, rest) ==
    CASE fact_type = <<"I", "n", "t">> ->
            IF str_parse_i32(fact_value) = None THEN ParsePanic
            ELSE Ok(rest, SetFact(Fact_Int(fact_name, str_parse_i32(fact_value)[1])))
      [] fact_type = <<"S", "t", "r", "i", "n", "g">> ->
            Ok(rest, SetFact(Fact_String(fact_name, fact_value)))
      [] fact_type = <<"B", "o", "o", "l">> ->
            IF str_parse_bool(fact_value) = None THEN ParsePanic
            ELSE Ok(rest, SetFact(Fact_Bool(fact_name, str_parse_bool(fact_value)[1])))
      [] fact_type = <<"S", "t", "r", "i", "n", "g", "L", "i", "s", "t">> ->
            Ok(rest, SetFact(Fact_StringList(fact_name, {fact_value})))
      [] OTHER -> ParsePanic

\* the tuple (tag, alphanumeric1, space1, take_while) is bound to
\* (_, fact_type, fact_name, fact_value)
effect_fields(fields) ==
    IF fields.ok
    THEN effect_of(Value(fields)[2], Value(fields)[3], Value(fields)[4], fields.rest)
    ELSE fields

parse_effect(input) ==
    effect_fields(
        LET opened == and_then(Ok(input, <<>>), tag(tag_Effect, input))
            fact_type == and_then(opened, alphanumeric1(opened.rest))
            spaces == and_then(fact_type, space1(fact_type.rest))
        IN  and_then(spaces, take_while(NameChars, spaces.rest)))

\* multi::many1 of the parser that kind names, acc holding the values so far
RECURSIVE many1(_, _, _)

\* |(_, _, name, _, conditions)| Rule { name, conditions }
rule_of(fields) ==
    IF fields.ok THEN Ok(fields.rest, Rule_new(Value(fields)[3], Value(fields)[5])) ELSE fields

\* the module's parse_rule, which parse_story_beat shadows and no parser calls
parse_rule(input) ==
    rule_of(
        LET opened == and_then(Ok(input, <<>>), tag(tag_Rule, input))
            spaces == and_then(opened, space0(opened.rest))
            name == and_then(spaces, take_while(NameChars, spaces.rest))
            more_spaces == and_then(name, space0(name.rest))
        IN  and_then(more_spaces, many1("condition", more_spaces.rest, <<>>)))

\* let parse_rule = |input| Ok(("", Rule::new("rule_name".to_string(), vec![])));
placeholder_parse_rule(input) == Ok(<<>>, Rule_new(rule_name, <<>>))

\* |(_, _, name, _, rules, effects)| StoryBeat { name, rules, effects, finished: false }
story_beat_of(fields) ==
    IF fields.ok
    THEN Ok(fields.rest, [name |-> Value(fields)[3], rules |-> Value(fields)[5],
                          effects |-> Value(fields)[6], finished |-> FALSE])
    ELSE fields

parse_story_beat(input) ==
    story_beat_of(
        LET opened == and_then(Ok(input, <<>>), tag(tag_StoryBeat, input))
            spaces == and_then(opened, space0(opened.rest))
            name == and_then(spaces, take_while(NameChars, spaces.rest))
            more_spaces == and_then(name, space0(name.rest))
            beat_rules == and_then(more_spaces, many1("rule", more_spaces.rest, <<>>))
        IN  and_then(beat_rules, many1("effect", beat_rules.rest, <<>>)))

\* sequence::preceded: what follows the spaces, on which the parser runs
after_space1(input) == IF space1(input).ok THEN space1(input).rest ELSE <<>>

\* the parser that many1 repeats:
\*   preceded(tuple((space1, tag("- Condition: "))), parse_condition)
\*   preceded(space1, parse_rule), parse_rule being the placeholder
\*   preceded(space1, parse_effect)
\*   preceded(space1, parse_story_beat)
preceded(kind, input) ==
    IF ~space1(input).ok THEN Err
    ELSE CASE kind = "condition" ->
                IF tag(tag_Condition, after_space1(input)).ok
                THEN parse_condition(tag(tag_Condition, after_space1(input)).rest)
                ELSE Err
           [] kind = "rule" -> placeholder_parse_rule(after_space1(input))
           [] kind = "effect" -> parse_effect(after_space1(input))
           [] kind = "beat" -> parse_story_beat(after_space1(input))

\* many1 after its parser has run once more: parsed is that run's result
many1_more(kind, input, acc, parsed) ==
    IF parsed.panic THEN ParsePanic
    ELSE IF ~parsed.ok THEN (IF acc = <<>> THEN Err ELSE Ok(input, acc))
    ELSE IF acc # <<>> /\ Len(parsed.rest) = Len(input) THEN Err
    ELSE many1(kind, parsed.rest, Append(acc, Value(parsed)))

many1(kind, input, acc) == many1_more(kind, input, acc, preceded(kind, input))

\* |(_, _, name, _, beats)| Story { name, beats, active_beat_index: 0 }
story_of(fields) ==
    IF fields.ok
    THEN Ok(fields.rest, [name |-> Value(fields)[3], beats |-> Value(fields)[5],
                          active_beat_index |-> 0])
    ELSE fields

parse_story(input) ==
    story_of(
        LET opened == and_then(Ok(input, <<>>), tag(tag_Story, input))
            spaces == and_then(opened, space0(opened.rest))
            name == and_then(spaces, take_while(NameChars, spaces.rest))
            more_spaces == and_then(name, space0(name.rest))
        IN  and_then(more_spaces, many1("beat", more_spaces.rest, <<>>)))

\* combinator::all_consuming
all_consuming(parsed) == IF parsed.ok /\ parsed.rest # <<>> THEN Err ELSE parsed

\* a variant of setup_stories_from: a failed parse adds a story without beats
setup_stories_from_adds_partial(engine_stories, parsed) ==
    IF parsed.ok
    THEN add_story(engine_stories, Value(parsed))
    ELSE add_story(engine_stories, [name |-> <<>>, beats |-> <<>>, active_beat_index |-> 0])

\* match all_consuming(parse_story)(input) { Ok((_, story)) => add_story(story),
\*                                           Err(e) => eprintln!(..) }
\* with parsed the result of all_consuming(parse_story)(input)
setup_stories_from(engine_stories, parsed) ==
    IF parsed.ok THEN add_story(engine_stories, Value(parsed)) ELSE engine_stories

\* the text that setup_stories parses (systems.rs 422-434)
SetupInput ==
    <<"\n", "#", " ", "S", "t", "o", "r", "y", ":", " ", "F", "i", "r", "s", "t", " ", "S",
      "t", "o", "r", "y", "\n", "\n", "#", "#", " ", "S", "t", "o", "r", "y", "B", "e",
      "a", "t", ":", " ", "T", "h", "e", " ", "s", "t", "o", "r", "y", " ", "b", "e", "g",
      "i", "n", "s", "\n", "-", " ", "R", "u", "l", "e", ":", " ", "S", "t", "a", "r", "t",
      " ", "R", "u", "l", "e", "\n", " ", " ", " ", " ", "-", " ", "C", "o", "n", "d", "i",
      "t", "i", "o", "n", ":", " ", "I", "n", "t", "M", "o", "r", "e", "T", "h", "a", "n",
      "(", "b", "u", "t", "t", "o", "n", "_", "p", "r", "e", "s", "s", "e", "d", ",", " ",
      "3", ")", "\n", "-", " ", "E", "f", "f", "e", "c", "t", ":", " ", "S", "e", "t", "F",
      "a", "c", "t", " ", "B", "o", "o", "l", " ", "b", "e", "a", "t", "_", "o", "n", "e",
      " ", "t", "r", "u", "e", "\n", "\n", "#", "#", " ", "S", "t", "o", "r", "y", "B",
      "e", "a", "t", ":", " ", "S", "e", "c", "o", "n", "d", "B", "e", "a", "t", "\n", "-",
      " ", "R", "u", "l", "e", ":", " ", "S", "t", "a", "r", "t", " ", "S", "e", "c", "o",
      "n", "d", " ", "R", "u", "l", "e", "\n", " ", " ", " ", " ", "-", " ", "C", "o", "n",
      "d", "i", "t", "i", "o", "n", ":", " ", "I", "n", "t", "M", "o", "r", "e", "T", "h",
      "a", "n", "(", "b", "u", "t", "t", "o", "m", "_", "p", "r", "e", "s", "s", "e", "d",
      ",", " ", "1", "0", ")", "\n", "-", " ", "E", "f", "f", "e", "c", "t", ":", " ", "S",
      "e", "t", "F", "a", "c", "t", " ", "B", "o", "o", "l", " ", "b", "e", "a", "t", "_",
      "t", "w", "o", " ", "t", "r", "u", "e", "\n">>

\* systems.rs 410-440: the new engine after setup_stories. The text begins with
\* a line break, which tag("# Story: ") does not accept, so parse_story fails,
\* the error is printed and no story is added
setup_stories == <<>>

\* the story of Scenario B: two beats on button_pressed, the first sets beat_one
ScenarioStory ==
    Story_build("First",
        <<StoryBeat_build("Beat1",
              <<Rule_new("Start", <<IntMoreThan("button_pressed", 3)>>)>>,
              <<SetFact(Fact_Bool("beat_one", TRUE))>>),
          StoryBeat_build("Beat2",
              <<Rule_new("Start", <<IntMoreThan("button_pressed", 10)>>)>>,
              <<>>)>>)

\* systems.rs 422-434: the story that the text in setup_stories describes, as
\* the builders build it; its second beat reads buttom_pressed
SetupStory ==
    Story_build("First",
        <<StoryBeat_build("Beat1",
              <<Rule_new("Start", <<IntMoreThan("button_pressed", 3)>>)>>,
              <<SetFact(Fact_Bool("beat_one", TRUE))>>),
          StoryBeat_build("Beat2",
              <<Rule_new("Start", <<IntMoreThan("buttom_pressed", 10)>>)>>,
              <<SetFact(Fact_Bool("beat_two", TRUE))>>)>>)

\* a story whose second beat waits for the fact that its first beat sets
ChainStory ==
    Story_build("Chain",
        <<StoryBeat_build("Beat1",
              <<Rule_new("Start", <<IntMoreThan("button_pressed", 3)>>)>>,
              <<SetFact(Fact_Bool("beat_one", TRUE))>>),
          StoryBeat_build("Beat2",
              <<Rule_new("Start", <<BoolEquals("beat_one", TRUE)>>)>>,
              <<SetFact(Fact_Bool("beat_two", TRUE))>>)>>)

Init ==
    /\ InitFrame
    /\ call = NoRuleEvaluator
    /\ \/ stories = setup_stories
       \/ \E story \in {ScenarioStory, SetupStory, ChainStory} :
             stories = add_story(setup_stories, story)
    /\ \E engine \in RuleEngines :
          /\ rules = engine.rules
          /\ rule_states = engine.rule_states
          /\ last_pass = NoPass(engine.rules)
    /\ applied = [name \in {"Beat1", "Beat2"} |-> 0]

Next ==
    \/ fact_update_event_broadcaster
    \/ rule_evaluator
    \/ button_system
    \/ story_evaluator
    \/ story_beat_effect_applier
    \/ EndFrame

Spec == Init /\ [][Next]_vars

-----------------------------------------------------------------------------
(* The plugin with fair scheduling: the app runs every system of Update in
   every frame, and frame follows frame. The player may press the button in a
   frame or leave it alone *)

\* a story whose second beat has the guard of its first beat, and no effects
TwinStory ==
    Story_build("Twin",
        <<StoryBeat_build("Beat1",
              <<Rule_new("Start", <<IntMoreThan("button_pressed", 3)>>)>>, <<>>),
          StoryBeat_build("Beat2",
              <<Rule_new("Start", <<IntMoreThan("button_pressed", 3)>>)>>, <<>>)>>)

InitLive ==
    /\ InitFrame
    /\ call = NoRuleEvaluator
    /\ \E story \in {TwinStory, ChainStory} : stories = add_story(setup_stories, story)
    /\ rules = setup_rules.rules
    /\ rule_states = setup_rules.rule_states
    /\ last_pass = NoPass(setup_rules.rules)
    /\ applied = [name \in {"Beat1", "Beat2"} |-> 0]

Fairness ==
    /\ WF_vars(fact_update_event_broadcaster)
    /\ WF_vars(rule_evaluator)
    /\ WF_vars(button_system)
    /\ WF_vars(story_evaluator)
    /\ WF_vars(story_beat_effect_applier)
    /\ WF_vars(EndFrame)

SpecLive == InitLive /\ [][Next]_vars /\ Fairness

-----------------------------------------------------------------------------
(* The plugin late in a run: the button has been pressed MaxPresses - 2 times,
   every frame so far has run to its end and the last of them changed nothing.
   The story waits for one more press, and one more may follow it; what a
   press sets off passes through every system: the press, its broadcast, the
   evaluation that finishes Beat1, the effect of Beat1, its broadcast, the
   evaluation that finishes Beat2 *)

\* a chain story whose first beat waits for the last press but one
LateStory ==
    Story_build("Late",
        <<StoryBeat_build("Beat1",
              <<Rule_new("Start", <<IntMoreThan("button_pressed", MaxPresses - 2)>>)>>,
              <<SetFact(Fact_Bool("beat_one", TRUE))>>),
          StoryBeat_build("Beat2",
              <<Rule_new("Start", <<BoolEquals("beat_one", TRUE)>>)>>,
              <<SetFact(Fact_Bool("beat_two", TRUE))>>)>>)

\* the rule of setup_rules holds from the sixth press on
InitLate ==
    /\ facts = Insert(EmptyMap, "button_pressed",
                      Fact_Int("button_pressed", MaxPresses - 2))
    /\ updated_facts = {}
    /\ panicked = FALSE
    /\ drained = {}
    /\ fact_updated = [rule_evaluator |-> 0, story_evaluator |-> 0]
    /\ beat_finished = <<>>
    /\ ran = {}
    /\ pressed = FALSE
    /\ fresh = [beats |-> {}, facts |-> {}]
    /\ saw = {}
    /\ call = NoRuleEvaluator
    /\ stories = add_story(setup_stories, LateStory)
    /\ rules = setup_rules.rules
    /\ rule_states = [name \in DOMAIN setup_rules.rules |-> TRUE]
    /\ last_pass = PassesMade(2, NoPass(setup_rules.rules), setup_rules.rules, facts)
    /\ applied = [name \in {"Beat1", "Beat2"} |-> 0]

SpecLate == InitLate /\ [][Next]_vars /\ Fairness

-----------------------------------------------------------------------------
(* A caller that parses story definitions and has setup_stories ingest them *)

\* Scenario C as the specification writes it
ScenarioC ==
    <<"#", " ", "S", "t", "o", "r", "y", ":", " ", "S", "\n", "#", "#", " ", "S", "t", "o",
      "r", "y", "B", "e", "a", "t", ":", " ", "B", "\n", "#", "#", "#", " ", "R", "u", "l",
      "e", ":", " ", "R", "\n", " ", " ", "I", "n", "t", "E", "q", "u", "a", "l", "s", "(",
      "x", ",", " ", "1", ")", "\n", "-", " ", "S", "e", "t", " ", "I", "n", "t", " ", "x",
      " ", "t", "o", " ", "1">>

\* Scenario C in the keywords of parsing.rs, laid out in lines as its example is
ScenarioCLines ==
    <<"#", " ", "S", "t", "o", "r", "y", ":", " ", "S", "\n", "#", "#", " ", "S", "t", "o",
      "r", "y", "B", "e", "a", "t", ":", " ", "B", "\n", "-", " ", "R", "u", "l", "e", ":",
      " ", "R", "\n", " ", " ", " ", " ", "-", " ", "C", "o", "n", "d", "i", "t", "i", "o",
      "n", ":", " ", "I", "n", "t", "E", "q", "u", "a", "l", "s", "(", "x", ",", " ", "1",
      ")", "\n", "-", " ", "E", "f", "f", "e", "c", "t", ":", " ", "S", "e", "t", "F", "a",
      "c", "t", " ", "I", "n", "t", " ", "x", " ", "1">>

\* Scenario C in the keywords of parsing.rs, its parts separated by single spaces
ScenarioCSpaces ==
    <<"#", " ", "S", "t", "o", "r", "y", ":", " ", "S", " ", "#", "#", " ", "S", "t", "o",
      "r", "y", "B", "e", "a", "t", ":", " ", "B", " ", "-", " ", "R", "u", "l", "e", ":",
      " ", "R", " ", "-", " ", "C", "o", "n", "d", "i", "t", "i", "o", "n", ":", " ", "I",
      "n", "t", "E", "q", "u", "a", "l", "s", "(", "x", ",", " ", "1", ")", " ", "-", " ",
      "E", "f", "f", "e", "c", "t", ":", " ", "S", "e", "t", "F", "a", "c", "t", " ", "I",
      "n", "t", " ", "x", " ", "1">>

WellFormed == {ScenarioC, ScenarioCLines, ScenarioCSpaces}

\* the well-formed texts, the text of setup_stories, and what is left of a
\* well-formed text when it is cut before a space or a line break and its end
\* or its beginning is dropped
Inputs ==
    {SetupInput} \cup WellFormed
        \cup UNION {UNION {{SubSeq(text, 1, n - 1), SubSeq(text, n, Len(text))} :
                              n \in {k \in 1..Len(text) : text[k] \in {" ", "\n"}}} :
                       text \in WellFormed}

\* the Story that Scenario C describes
ScenarioCStory ==
    [name |-> <<"S">>,
     beats |-> <<[name |-> <<"B">>,
                  rules |-> <<Rule_new(<<"R">>, <<IntEquals(<<"x">>, 1)>>)>>,
                  effects |-> <<SetFact(Fact_Int(<<"x">>, 1))>>,
                  finished |-> FALSE]>>,
     active_beat_index |-> 0]

\* parse_story(input); call keeps the input and the result
ParseStory(input) ==
    /\ ~panicked
    /\ call' = [op |-> "parse_story", key |-> input, value |-> parse_story(input)]
    /\ panicked' = parse_story(input).panic
    /\ UNCHANGED <<facts, updated_facts, drained, stories, rules, rule_states, last_pass,
                   fact_updated, beat_finished, ran, pressed, applied, fresh, saw>>

\* setup_stories given input as its text; call keeps the stories the engine
\* held before, the input, and the result of all_consuming(parse_story)
SetupStories(input) ==
    /\ ~panicked
    /\ Len(stories) < MaxStories
    /\ stories' = setup_stories_from(stories, all_consuming(parse_story(input)))
    /\ panicked' = all_consuming(parse_story(input)).panic
    /\ call' = [op |-> "setup_stories", key |-> [stories |-> stories, input |-> input],
                value |-> all_consuming(parse_story(input))]
    /\ UNCHANGED <<facts, updated_facts, drained, rules, rule_states, last_pass,
                   fact_updated, beat_finished, ran, pressed, applied, fresh, saw>>

InitParse ==
    /\ InitResources
    /\ stories \in {<<>>, <<ScenarioStory>>}
    /\ rules = EmptyMap
    /\ rule_states = EmptyMap
    /\ last_pass = NoPass(EmptyMap)
    /\ applied = EmptyMap

NextParse ==
    \/ \E input \in Inputs : ParseStory(input)
    \/ \E input \in Inputs : SetupStories(input)

SpecParse == InitParse /\ [][NextParse]_vars

-----------------------------------------------------------------------------
(* A caller that owns a store, a rule engine and a story engine: it writes
   button_pressed, hands the store's facts to each of the evaluations, applies
   the effects of the beats that are finished, and drains the dirty set *)

\* the guard rules of the chain story
GuardRules ==
    {ChainStory.beats[b].rules[r] : b \in 1..Len(ChainStory.beats), r \in {1}}

\* the conditions of these rules
GuardConditions ==
    {rule.conditions[1] : rule \in GuardRules}

\* the effects of the beats that are finished
FinishedEffects ==
    UNION {UNION {{stories[s].beats[b].effects[e] : e \in 1..Len(stories[s].beats[b].effects)} :
                      b \in {c \in 1..Len(stories[s].beats) : stories[s].beats[c].finished}} :
               s \in 1..Len(stories)}

InitRead ==
    /\ InitResources
    /\ stories = add_story(setup_stories, ChainStory)
    /\ rules = setup_rules.rules
    /\ rule_states = setup_rules.rule_states
    /\ last_pass = NoPass(setup_rules.rules)
    /\ applied = EmptyMap

NextRead ==
    \/ \E value \in Scores : StoreInt("button_pressed", value)
    \/ \E c \in GuardConditions : EvaluateCondition(c)
    \/ \E rule \in GuardRules : EvaluateRule(rule)
    \/ EvaluateRules
    \/ EvaluateActiveBeat(facts)
    \/ EvaluateStories(facts)
    \/ \E effect \in FinishedEffects : ApplyEffect(effect)
    \/ DrainUpdated

SpecRead == InitRead /\ [][NextRead]_vars

-----------------------------------------------------------------------------
(* Claims about Story::evaluate_active_beat, under SpecStory *)

Evaluated(c) == c.op = "evaluate_active_beat"

\* all guard rules of a beat hold in a snapshot
GuardsHold(beat, fs) == \A i \in 1..Len(beat.rules) : Rule_evaluate(beat.rules[i], fs)

\* C1: over any sequence of evaluate_active_beat calls with any snapshots,
\* active_beat_index never decreases, and a call on a finished story leaves the
\* story finished, with the same index and the same beats.
C1_IndexMonotone ==
    [][Evaluated(call') =>
        /\ stories'[1].active_beat_index >= stories[1].active_beat_index
        /\ Story_is_finished(stories[1]) =>
              /\ Story_is_finished(stories'[1])
              /\ stories'[1].active_beat_index = stories[1].active_beat_index
              /\ stories'[1].beats = stories[1].beats]_vars

\* a story of several beats has been driven to its end by evaluate_active_beat
C1_Witness ==
    /\ Evaluated(call)
    /\ Len(stories[1].beats) = MaxBeats
    /\ Story_is_finished(stories[1])

\* C2: in every reachable state 0 <= active_beat_index <= beats.len(), and
\* is_finished() is true exactly when active_beat_index = beats.len().
C2_IndexInRange ==
    \A s \in 1..Len(stories) :
        /\ 0 <= stories[s].active_beat_index
        /\ stories[s].active_beat_index <= Len(stories[s].beats)
        /\ Story_is_finished(stories[s])
              <=> stories[s].active_beat_index = Len(stories[s].beats)

\* the index has reached beats.len() of a story that has beats
C2_Witness ==
    /\ Evaluated(call)
    /\ Len(stories[1].beats) > 0
    /\ stories[1].active_beat_index = Len(stories[1].beats)

\* C3: a call on an unfinished story evaluates only the beat at
\* active_beat_index; the index rises by one if all guard rules of that beat hold
\* in the snapshot and stays otherwise; no beat at or after the new index is
\* finished, so no later beat completes before or together with an earlier one.
C3_OneBeatPerCall ==
    [][(Evaluated(call') /\ ~Story_is_finished(stories[1])) =>
        LET old == stories[1]
            new == stories'[1]
            at == old.active_beat_index + 1
            holds == GuardsHold(old.beats[at], call'.value)
        IN  /\ new.active_beat_index = old.active_beat_index + (IF holds THEN 1 ELSE 0)
            /\ new.beats[at].finished = holds
            /\ Len(new.beats) = Len(old.beats)
            /\ \A j \in 1..Len(old.beats) : j # at => new.beats[j] = old.beats[j]
            /\ \A j \in (new.active_beat_index + 1)..Len(new.beats) :
                    ~new.beats[j].finished]_vars

\* the first beat completed in a call whose snapshot satisfies the second beat
\* too, and the second beat is still the active, unfinished one
C3_Witness ==
    /\ Evaluated(call)
    /\ Len(stories[1].beats) >= 2
    /\ stories[1].active_beat_index = 1
    /\ Len(stories[1].beats[2].rules) > 0
    /\ GuardsHold(stories[1].beats[2], call.value)
    /\ ~stories[1].beats[2].finished

-----------------------------------------------------------------------------
(* Claims about the passes, under Spec *)

\* how many StoryBeatFinished events of a beat the applier has not read yet
Pending(name) == Len(SelectSeq(beat_finished, LAMBDA event : event.beat.name = name))

\* the story has advanced past its beat b (beats count from 1, the index from 0)
AdvancedPast(story, b) == b <= story.active_beat_index

\* an effect's fact is the one the store holds under its name
Observable(effect) ==
    NameOf(effect.fact) \in DOMAIN facts /\ facts[NameOf(effect.fact)] = effect.fact

\* C4: over any run of passes the effects of a beat are applied once for each
\* advancement past the beat (an advancement whose event the applier has not
\* read yet stands for the one application to come, which happens no later
\* than the applier's run of the next frame), never before the advancement and
\* never again: the effects show in the store only after the advancement.
C4_EffectsOncePerAdvance ==
    \A s \in 1..Len(stories) : \A b \in 1..Len(stories[s].beats) :
        LET beat == stories[s].beats[b]
        IN  /\ applied[beat.name] + Pending(beat.name)
                  = (IF AdvancedPast(stories[s], b) THEN 1 ELSE 0)
            /\ ("story_beat_effect_applier" \in ran /\ Pending(beat.name) > 0)
                  => beat.name \in fresh.beats
            /\ \A e \in 1..Len(beat.effects) :
                  /\ Observable(beat.effects[e]) => AdvancedPast(stories[s], b)
                  /\ applied[beat.name] = 1 => Observable(beat.effects[e])

\* both beats were advanced past, both effects were applied once, and passes go on
C4_Witness ==
    /\ Len(stories) = 1
    /\ Story_is_finished(stories[1])
    /\ applied["Beat1"] = 1
    /\ applied["Beat2"] = 1
    /\ get_bool(facts, "beat_two") = Some(TRUE)
    /\ beat_finished = <<>>
    /\ pressed
    /\ "story_beat_effect_applier" \in ran

\* C5: the fact changes made by the effects of a beat that finishes in a pass
\* are read by no rule evaluation and no story evaluation of that pass.
C5_EffectsUnseenInTheirPass == saw = {}

\* the engine holds the story of Scenario B
HoldsScenarioStory ==
    /\ Len(stories) = 1
    /\ stories[1].name = ScenarioStory.name
    /\ \A b \in 1..Len(stories[1].beats) :
          /\ stories[1].beats[b].rules = ScenarioStory.beats[b].rules
          /\ stories[1].beats[b].effects = ScenarioStory.beats[b].effects

\* a pass has run to its end and nothing was written to button_pressed in it
PassRanAfterStore == ran = Systems /\ ~pressed

\* C6: Scenario B. With button_pressed stored as 4, one pass takes the index
\* from 0 to 1 and, once the effect is applied, get_bool(beat_one) is true; with
\* button_pressed stored as 11, one pass takes the index to 2 and the story is
\* finished.
C6_ScenarioB ==
    (HoldsScenarioStory /\ PassRanAfterStore) =>
        /\ get_int(facts, "button_pressed") = Some(4) =>
              stories[1].active_beat_index = 1
        /\ applied["Beat1"] = 1 => get_bool(facts, "beat_one") = Some(TRUE)
        /\ get_int(facts, "button_pressed") = Some(11) =>
              /\ stories[1].active_beat_index = 2
              /\ Story_is_finished(stories[1])

-----------------------------------------------------------------------------
(* Claims about the CoolFactStore setters and the drain, under SpecStore *)

StoreOps == {"store_int", "store_string", "store_bool"}
WriteOps == StoreOps \cup {"add_to_list", "remove_from_list"}

\* the variant a typed setter writes, and the fact its call writes
VariantOfOp(op) ==
    CASE op = "store_int" -> "Int" [] op = "store_string" -> "String"
      [] op = "store_bool" -> "Bool"
WrittenBy(c) == <<VariantOfOp(c.op), c.key, c.value>>

\* the name of call c holds, in the map fs, a fact of another variant
OtherVariant(fs, c) ==
    c.key \in DOMAIN fs /\ Variant(fs[c.key]) # VariantOfOp(c.op)
\* ... the same variant and payload
SameFact(fs, c) == c.key \in DOMAIN fs /\ fs[c.key] = WrittenBy(c)
\* ... nothing, or the same variant with another payload
NewPayload(fs, c) ==
    \/ c.key \notin DOMAIN fs
    \/ Variant(fs[c.key]) = VariantOfOp(c.op) /\ Payload(fs[c.key]) # c.value

\* C7: store_int, store_string or store_bool on a name that holds a Value of a
\* different variant ends in the type-mismatch panic and leaves the facts map and
\* the dirty set as they were.
C7_TypeMismatchPanics ==
    [][(call'.op \in StoreOps /\ OtherVariant(facts, call')) =>
        /\ panicked'
        /\ facts' = facts
        /\ updated_facts' = updated_facts]_vars

\* store_string on a name stored as Int has panicked, with the Int still stored
C7_Witness ==
    /\ panicked
    /\ call.op = "store_string"
    /\ call.key \in DOMAIN facts
    /\ Variant(facts[call.key]) = "Int"
    /\ updated_facts # {}

\* C8: a typed setter called with the payload already stored under the name
\* changes neither the facts map nor the dirty set; called right after a drain it
\* leaves the dirty set empty.
C8_EqualPayloadNoOp ==
    [][(call'.op \in StoreOps /\ SameFact(facts, call')) =>
        /\ ~panicked'
        /\ facts' = facts
        /\ updated_facts' = updated_facts
        /\ call.op = "drain" => updated_facts' = {}]_vars

\* store(v), drain, store(v): the dirty set is empty after the second store
C8_Witness ==
    /\ call.op = "store_int"
    /\ SameFact(facts, call)
    /\ updated_facts = {}
    /\ WrittenBy(call) \in drained

\* C9: a typed setter called on an absent name, or on a name holding the same
\* variant with another payload, leaves exactly the new Value under that name
\* (the other names as they were) and the new Value in the dirty set.
C9_NewPayloadStoredDirty ==
    [][(call'.op \in StoreOps /\ NewPayload(facts, call')) =>
        /\ ~panicked'
        /\ facts' = Insert(facts, call'.key, WrittenBy(call'))
        /\ updated_facts' = updated_facts \cup {WrittenBy(call')}]_vars

\* a Bool was replaced by the other Bool, and both Values are in the dirty set
C9_Witness ==
    /\ call.op = "store_bool"
    /\ SameFact(facts, call)
    /\ {Fact_Bool(call.key, TRUE), Fact_Bool(call.key, FALSE)} \subseteq updated_facts

\* C10: a drain yields every Value marked dirty since the previous drain and
\* leaves the dirty set empty; a drain right after a drain yields nothing; a
\* drain never changes the facts map. (Between two drains no call takes a Value
\* out of the dirty set, and every call that changes the facts map puts the
\* changed Value into it.)
C10_DrainYieldsAllOnce ==
    [][/\ call'.op = "drain" =>
              /\ drained' = updated_facts
              /\ updated_facts' = {}
              /\ facts' = facts
       /\ (call.op = "drain" /\ call'.op = "drain") => drained' = {}
       /\ call'.op \in WriteOps =>
              /\ updated_facts \subseteq updated_facts'
              /\ facts' # facts => facts'[call'.key] \in updated_facts']_vars

\* a drain has yielded two Values written to one name since the previous drain
C10_Witness ==
    /\ call.op = "drain"
    /\ updated_facts = {}
    /\ \E key \in DOMAIN facts :
          {Fact_Int(key, 0), Fact_Int(key, 1)} \subseteq drained

-----------------------------------------------------------------------------
(* Claims about the list operations, add_to_int and the getters *)

\* the name of call c is absent from fs / holds a string-set in fs
Absent(fs, c) == c.key \notin DOMAIN fs
HoldsList(fs, c) == Matches(fs, c.key, "StringList")

\* the facts map fs with the string-set under c's name replaced by set
WithList(fs, c, set) == Insert(fs, c.key, Fact_StringList(c.key, set))

\* C11: add_to_list(name, v) creates the set {v} when name is absent and
\* otherwise inserts v into the set under name; remove_from_list(name, v)
\* removes v from it. Each marks the fact dirty exactly when the membership
\* changed: inserting a present element, removing an absent element and removing
\* from an absent name leave the facts map and the dirty set as they were.
C11_ListOpsDirtyIffChanged ==
    [][/\ (call'.op = "add_to_list" /\ Absent(facts, call')) =>
              /\ facts' = WithList(facts, call', {call'.value})
              /\ updated_facts' = updated_facts \cup {facts'[call'.key]}
       /\ (call'.op = "add_to_list" /\ HoldsList(facts, call')) =>
              /\ facts' = WithList(facts, call', Payload(facts[call'.key]) \cup {call'.value})
              /\ IF call'.value \in Payload(facts[call'.key])
                 THEN updated_facts' = updated_facts
                 ELSE updated_facts' = updated_facts \cup {facts'[call'.key]}
       /\ (call'.op = "remove_from_list" /\ HoldsList(facts, call')) =>
              /\ facts' = WithList(facts, call', Payload(facts[call'.key]) \ {call'.value})
              /\ IF call'.value \notin Payload(facts[call'.key])
                 THEN updated_facts' = updated_facts
                 ELSE updated_facts' = updated_facts \cup {facts'[call'.key]}
       /\ (call'.op = "remove_from_list" /\ Absent(facts, call')) =>
              /\ facts' = facts
              /\ updated_facts' = updated_facts
       /\ (call'.op \in {"add_to_list", "remove_from_list"}
             /\ (Absent(facts, call') \/ HoldsList(facts, call'))) => ~panicked']_vars

\* after a drain, an element was added again to a set that holds it: the set
\* has two elements and nothing is dirty
C11_Witness ==
    /\ call.op = "add_to_list"
    /\ HoldsList(facts, call)
    /\ Payload(facts[call.key]) = Tags
    /\ updated_facts = {}
    /\ Fact_StringList(call.key, Tags) \in drained

\* new = old + delta over the integers, for new, old and delta of i32, formed
\* without leaving the range: when old and delta have the same sign their sum
\* has that sign too
IsSum(new, old, delta) ==
    IF old > 0 /\ delta > 0 THEN new > 0 /\ new - old = delta
    ELSE IF old < 0 /\ delta < 0 THEN new < 0 /\ new - old = delta
    ELSE new = old + delta

\* the integer under c's name, 0 if the name is absent
OldInt(fs, c) == IF Absent(fs, c) THEN 0 ELSE Payload(fs[c.key])

\* C12: add_to_int(name, delta) leaves the integer under name equal to
\* old + delta, old being 0 for an absent name, with the dirty mark of
\* store_int(name, old + delta): nothing is marked when the integer stays what
\* it was, and delta = 0 on an absent name creates Int(name, 0), marked dirty.
C12_AddToIntStoresSum ==
    [][(call'.op = "add_to_int" /\ (Absent(facts, call') \/ Matches(facts, call'.key, "Int"))) =>
        /\ ~panicked'
        /\ Matches(facts', call'.key, "Int")
        /\ IsSum(Payload(facts'[call'.key]), OldInt(facts, call'), call'.value)
        /\ facts' = Insert(facts, call'.key, facts'[call'.key])
        /\ IF ~Absent(facts, call') /\ call'.value = 0
           THEN updated_facts' = updated_facts
           ELSE updated_facts' = updated_facts \cup {facts'[call'.key]}]_vars

GetOps == {"get_int", "get_string", "get_bool", "get_list"}

\* the variant a getter asks for
VariantOfGet(op) ==
    CASE op = "get_int" -> "Int" [] op = "get_string" -> "String"
      [] op = "get_bool" -> "Bool" [] op = "get_list" -> "StringList"

\* C13: get_int, get_string, get_bool and get_list return the stored payload
\* when the name holds a Value of the variant asked for, and None, never an
\* error, when the name is absent or holds another variant; no getter changes
\* the facts map or the dirty set.
C13_GettersTolerant ==
    /\ [](call.op \in GetOps =>
            /\ ~panicked
            /\ IF Absent(facts, call) \/ Variant(facts[call.key]) # VariantOfGet(call.op)
               THEN call.value = None
               ELSE call.value = Some(Payload(facts[call.key])))
    /\ [][call'.op \in GetOps =>
            facts' = facts /\ updated_facts' = updated_facts /\ panicked' = panicked]_vars

\* get_bool on a name that holds an Int has returned None
C13_Witness ==
    /\ call.op = "get_bool"
    /\ call.value = None
    /\ Matches(facts, call.key, "Int")
    /\ ~panicked

-----------------------------------------------------------------------------
(* Claims about Condition::evaluate, Rule::evaluate and StoryBeat::evaluate, *)
(* under SpecEval. The three take the snapshot by shared reference, so the   *)
(* snapshot a call was made on is the facts map of the state after the call: *)
(* call holds the receiver in key and the result in value.                   *)

\* the variant of fact a condition kind reads
VariantOfKind(kind) ==
    CASE kind \in {"IntEquals", "IntMoreThan", "IntLessThan"} -> "Int"
      [] kind = "StringEquals" -> "String"
      [] kind = "BoolEquals" -> "Bool"
      [] kind = "ListContains" -> "StringList"

\* the snapshot fs holds, under the condition's name, a fact of the variant
\* that the condition's kind reads
Readable(fs, c) ==
    FactName(c) \in DOMAIN fs /\ Variant(fs[FactName(c)]) = VariantOfKind(Kind(c))

\* C14: Condition.evaluate returns false, and never an error, for every kind
\* of condition whenever the named fact is absent from the snapshot or present
\* with a variant other than the one the kind reads.
C14_MissingOrMismatchedIsFalse ==
    (call.op = "Condition::evaluate" /\ ~Readable(facts, call.key)) =>
        /\ call.value = FALSE
        /\ ~panicked

\* IntLessThan(name, 1) was evaluated to false on a snapshot where name holds a
\* String, and ListContains on a snapshot where its name is absent
C14_Witness ==
    /\ call.op = "Condition::evaluate"
    /\ call.value = FALSE
    /\ \/ /\ call.key = IntLessThan("beat_one", 1)
          /\ Matches(facts, "beat_one", "String")
       \/ /\ Kind(call.key) = "ListContains"
          /\ FactName(call.key) \notin DOMAIN facts

\* C15: when the named fact is present with the matching variant, IntEquals,
\* StringEquals and BoolEquals are true exactly when the stored payload equals
\* expected_value, IntMoreThan exactly when stored > expected_value and
\* IntLessThan exactly when stored < expected_value, both strict.
C15_ComparisonsExact ==
    (call.op = "Condition::evaluate" /\ Readable(facts, call.key)) =>
        LET stored == Payload(facts[FactName(call.key)])
            expected_value == Expected(call.key)
            kind == Kind(call.key)
        IN  /\ kind \in {"IntEquals", "StringEquals", "BoolEquals"} =>
                  (call.value <=> stored = expected_value)
            /\ kind = "IntMoreThan" => (call.value <=> stored > expected_value)
            /\ kind = "IntLessThan" => (call.value <=> stored < expected_value)

\* IntMoreThan was evaluated to false on an integer equal to expected_value, at
\* the upper end of i32
C15_Witness ==
    /\ call.op = "Condition::evaluate"
    /\ Kind(call.key) = "IntMoreThan"
    /\ Readable(facts, call.key)
    /\ Payload(facts[FactName(call.key)]) = MaxI32
    /\ Expected(call.key) = MaxI32
    /\ call.value = FALSE

\* the conditions of a rule that are false on the snapshot fs
Unmet(rule, fs) ==
    {i \in 1..Len(rule.conditions) : ~Condition_evaluate(rule.conditions[i], fs)}

\* C16: Rule.evaluate(snapshot) is true if and only if every condition of the
\* rule is true on the snapshot; a rule with no conditions is true on every
\* snapshot, the empty one included.
C16_RuleIsConjunction ==
    call.op = "Rule::evaluate" =>
        /\ call.value <=> Unmet(call.key, facts) = {}
        /\ call.key.conditions = <<>> => call.value = TRUE

\* a rule of two conditions was false because exactly one of them is
C16_Witness ==
    /\ call.op = "Rule::evaluate"
    /\ Len(call.key.conditions) = 2
    /\ Cardinality(Unmet(call.key, facts)) = 1
    /\ call.value = FALSE

\* the rules of a beat that are not satisfied on the snapshot fs
Unsatisfied(beat, fs) ==
    {i \in 1..Len(beat.rules) : Unmet(beat.rules[i], fs) # {}}

\* C17: StoryBeat.evaluate(snapshot) sets the beat's finished flag to the
\* conjunction of its guard rules on the snapshot, whatever the flag was, and
\* changes nothing else of the beat; a beat with no rules becomes finished on
\* any snapshot.
C17_FinishedIsConjunction ==
    call.op = "StoryBeat::evaluate" =>
        /\ call.value.finished <=> Unsatisfied(call.key, facts) = {}
        /\ call.key.rules = <<>> => call.value.finished
        /\ call.value = [call.key EXCEPT !.finished = call.value.finished]

\* a beat of two rules became finished, and a finished beat with an unsatisfied
\* rule was evaluated
C17_Witness ==
    /\ call.op = "StoryBeat::evaluate"
    /\ Len(call.key.rules) = 2
    /\ \/ ~call.key.finished /\ call.value.finished
       \/ call.key.finished /\ Unsatisfied(call.key, facts) # {}

-----------------------------------------------------------------------------
(* Claims about the RuleEngine, under SpecRules. evaluate_rules takes the    *)
(* snapshot by shared reference: the snapshot of the latest call is the      *)
(* facts map of the state after it.                                          *)

\* the rules of the engine that the snapshot fs satisfies
Satisfied(fs) == {name \in DOMAIN rules : Rule_evaluate(rules[name], fs)}

\* C18: evaluate_rules(snapshot) returns exactly the names of the owned rules
\* whose stored state differed from their satisfaction on the snapshot, and
\* after the call the stored state of every owned rule is its satisfaction on
\* that snapshot.
C18_ReturnsFlippedAndStores ==
    call.op = "evaluate_rules" =>
        /\ call.value = {name \in DOMAIN rules :
                            call.key.rule_states[name] # (name \in Satisfied(facts))}
        /\ DOMAIN rule_states = DOMAIN rules
        /\ \A name \in DOMAIN rules : rule_states[name] <=> name \in Satisfied(facts)

\* a call found one rule tracked as true and no longer satisfied, and another
\* tracked as true and still satisfied: it returned the first one only
C18_Witness ==
    /\ call.op = "evaluate_rules"
    /\ \E falling \in call.value : call.key.rule_states[falling]
    /\ \E same \in DOMAIN rules \ call.value : call.key.rule_states[same]

\* C19: over any sequence of passes, evaluate_rules returns a rule's name on
\* exactly the passes where the rule's satisfaction differs from what it was on
\* the pass before (false before the first): it is returned on the pass where
\* it goes from false to true and not on the following passes while its
\* satisfaction stays what it was.
C19_ReportedOnFlipOnly ==
    call.op = "evaluate_rules" =>
        call.value = {name \in DOMAIN rules : last_pass.now[name] # last_pass.before[name]}

\* Scenario A: score is 4, R1 = IntMoreThan(score, 3) was true on the pass
\* before, and this pass does not return it
C19_Witness ==
    /\ call.op = "evaluate_rules"
    /\ get_int(facts, "score") = Some(4)
    /\ "R1" \in DOMAIN rules
    /\ rules["R1"] = Rule_new("R1", <<IntMoreThan("score", 3)>>)
    /\ last_pass.before["R1"]
    /\ last_pass.now["R1"]
    /\ "R1" \notin call.value

\* C20: add_rule(rule) stores the rule under its name, in place of any rule of
\* that name, and sets its tracked state to false whatever it was; so after a
\* rule tracked as true was added again, the next evaluate_rules returns its
\* name if its conditions hold.
C20_AddRuleResets ==
    /\ call.op = "add_rule" =>
          /\ call.key \in DOMAIN rules
          /\ rules[call.key] = call.value
          /\ call.key \in DOMAIN rule_states
          /\ rule_states[call.key] = FALSE
    /\ call.op = "evaluate_rules" =>
          call.key.readded \cap Satisfied(facts) \subseteq call.value

\* R1 was tracked as true, was added again and is returned by the next call,
\* which found it tracked as false
C20_Witness ==
    /\ call.op = "evaluate_rules"
    /\ "R1" \in call.key.readded
    /\ "R1" \in call.value
    /\ ~call.key.rule_states["R1"]

-----------------------------------------------------------------------------
(* C21, C22: the finished flag and the story test, under SpecBeat *)

\* C21: a beat's finished flag starts false and only ever changes from false to
\* true: no StoryBeat.evaluate or Story.evaluate_active_beat call, with any
\* snapshot, sets the flag of a finished beat back to false.
C21_FinishedNeverReset ==
    [][\A i \in 1..Len(stories[1].beats) :
          stories[1].beats[i].finished => stories'[1].beats[i].finished]_vars

\* C22: as test_story_evaluation asserts, the first evaluate_active_beat call
\* on its two-beat story against score = 42 leaves active_beat_index = 1, and
\* the second call against the same facts leaves is_finished() true.
C22_TestStoryEvaluation ==
    call.op = "test_story_evaluation" => call.key = 1 /\ call.value = TRUE

-----------------------------------------------------------------------------
(* C23: the story engine, under SpecEngine *)

Reversed(ss) == [s \in 1..Len(ss) |-> ss[Len(ss) + 1 - s]]

\* C23: evaluate_stories(snapshot) applies evaluate_active_beat(snapshot) once
\* to every story the engine owns: each story's result is what that call makes
\* of the story's own prior state and the snapshot, whatever the other stories
\* are and in whatever order they are held; a finished story is left as it
\* was; and all_stories_finished() is true exactly when every owned story has
\* active_beat_index >= its number of beats.
C23_EvaluateStoriesPerStory ==
    /\ call.op = "evaluate_stories" =>
          /\ Len(stories) = Len(call.key)
          /\ \A s \in 1..Len(call.key) :
                /\ stories[s] = Story_evaluate_active_beat(call.key[s], call.value)
                /\ call.key[s].active_beat_index >= Len(call.key[s].beats)
                      => stories[s] = call.key[s]
          /\ evaluate_stories(Reversed(call.key), call.value) = Reversed(stories)
    /\ call.op = "all_stories_finished" =>
          (call.value <=>
              \A s \in 1..Len(stories) :
                  stories[s].active_beat_index >= Len(stories[s].beats))

\* two stories, the first finished before the call and the second advanced by it
C23_Witness ==
    /\ call.op = "evaluate_stories"
    /\ Len(call.key) = 2
    /\ call.key[1].beats # <<>>
    /\ call.key[1].active_beat_index = Len(call.key[1].beats)
    /\ stories[2].active_beat_index = call.key[2].active_beat_index + 1
    /\ ~all_stories_finished(stories)

-----------------------------------------------------------------------------
(* C24, C25: list conditions and list operations, under SpecList *)

TagsContains(value) == Condition_evaluate(ListContains("tags", value), facts)

ListOpOn(c, key, value) ==
    c.op \in {"add_to_list", "remove_from_list"} /\ c.key = key /\ c.value = value

\* C24: ListContains{tags, vip} is false while the tags fact is absent or its
\* set lacks vip, true once add_to_list(tags, vip) was applied to an absent or
\* string-set tags, and false again once remove_from_list(tags, vip) was
\* applied; membership is exact, case-sensitive string equality.
C24_ListContainsFollowsList ==
    /\ "tags" \notin DOMAIN facts => ~TagsContains("vip")
    /\ Matches(facts, "tags", "StringList") /\ "vip" \notin Payload(facts["tags"])
          => ~TagsContains("vip")
    /\ ListOpOn(call, "tags", "vip") /\ HoldsList(facts, call) =>
          (TagsContains("vip") <=> call.op = "add_to_list")
    /\ \A value \in Tags \cup {"VIP", "vi"} :
          TagsContains(value) =>
              Matches(facts, "tags", "StringList") /\ value \in Payload(facts["tags"])

\* vip and red were in the set when it was drained; remove_from_list(tags, vip)
\* then took vip out, and the condition is false for vip and true for red
C24_Witness ==
    /\ call.op = "remove_from_list"
    /\ ListOpOn(call, "tags", "vip")
    /\ Fact_StringList("tags", {"vip", "red"}) \in drained
    /\ updated_facts = {Fact_StringList("tags", {"red"})}
    /\ ~TagsContains("vip")
    /\ TagsContains("red")
    /\ ~TagsContains("VIP")

\* C25: add_to_list and remove_from_list on a name that holds an integer, a
\* string or a boolean end in a type-mismatch error, as the typed setters do,
\* and not in a silent no-op.
C25_ListOpsMismatchErrors ==
    /\ call.op \in {"add_to_list", "remove_from_list"}
    /\ call.key \in DOMAIN facts
    /\ Variant(facts[call.key]) # "StringList"
    => panicked

-----------------------------------------------------------------------------
(* C26: applying an effect, under SpecEffect *)

-----------------------------------------------------------------------------
(* C27, C28: parsing and ingesting story definitions, under SpecParse *)

\* C27: parse_story accepts a well-formed definition of one story with one
\* beat, one rule with one call-form condition and one effect (Scenario C) and
\* yields the Story of that name with active_beat_index 0 and one unfinished
\* beat carrying exactly that rule, that condition and that SetFact effect.
C27_ParsesScenarioC ==
    call.op = "parse_story" /\ call.key \in WellFormed =>
        call.value.ok /\ Value(call.value) = ScenarioCStory

\* C28: story ingestion is all-or-nothing: when parsing the definition fails
\* anywhere, trailing unconsumed input included, the engine's list of stories
\* is as it was before, with no story and no part of one added; when parsing
\* succeeds, exactly the parsed story is appended.
C28_IngestionAllOrNothing ==
    call.op = "setup_stories" =>
        IF call.value.ok
        THEN stories = Append(call.key.stories, Value(call.value))
        ELSE stories = call.key.stories

\* an engine that held a story was given a definition that does not parse
C28_Witness ==
    /\ call.op = "setup_stories"
    /\ call.key.input = ScenarioCSpaces
    /\ ~call.value.ok
    /\ call.key.stories = <<ScenarioStory>>
    /\ stories = <<ScenarioStory>>

-----------------------------------------------------------------------------
(* C29: progress of a story, under SpecLive *)

\* beat i (counted from 0) of the story is its active beat and all its rules hold
ActiveSatisfied(i) ==
    /\ stories # <<>>
    /\ stories[1].active_beat_index = i
    /\ i < Len(stories[1].beats)
    /\ \A r \in 1..Len(stories[1].beats[i + 1].rules) :
          Rule_evaluate(stories[1].beats[i + 1].rules[r], facts)

\* C29: if all guard rules of a story's active beat are satisfied by the store
\* and stay satisfied, then under fair scheduling the story eventually advances
\* past that beat, also when no fact changes any more: a beat never stays
\* active and satisfied for ever.
C29_SatisfiedBeatAdvances ==
    \A i \in 0..(MaxBeats - 1) : ActiveSatisfied(i) ~> ~ActiveSatisfied(i)

-----------------------------------------------------------------------------
(* C30: one beat per story and pass, under SpecLive *)

\* C30: within one pass each story is evaluated at most once: a story's
\* active_beat_index changes only in a run of story_evaluator, of which a
\* frame has one, and grows by at most one in it, however many facts changed
\* and even if the guards of several consecutive beats hold; so a story of n
\* beats needs at least n passes to finish.
C30_OneBeatPerPass ==
    [][\A s \in 1..Len(stories) :
          /\ Len(stories') = Len(stories)
          /\ stories'[s].active_beat_index >= stories[s].active_beat_index
          /\ stories'[s].active_beat_index <= stories[s].active_beat_index + 1
          /\ stories'[s] # stories[s] =>
                "story_evaluator" \notin ran /\ "story_evaluator" \in ran']_vars

\* the pass of this frame finished Beat1 of the twin story and left Beat2
\* active, whose guard holds as well
C30_Witness ==
    /\ stories # <<>>
    /\ stories[1].name = "Twin"
    /\ "story_evaluator" \in ran
    /\ fresh.beats = {"Beat1"}
    /\ ActiveSatisfied(1)

-----------------------------------------------------------------------------
(* C31 *)

\* the rules whose satisfaction, as rule_evaluator found it, differs from the
\* tracked state it found
Differs(found) ==
    {name \in DOMAIN found.rule_states :
        found.rule_states[name] # (name \in found.satisfied)}

\* C31: a run of rule_evaluator that finds one or more FactUpdated events sends
\* exactly one RuleUpdated for every rule whose satisfaction differs from its
\* tracked state and none for any other rule, however many events it finds; a
\* run that finds no event sends nothing and leaves the tracked states as they were
C31_OneRuleUpdatedPerFlip ==
    call.op = "rule_evaluator" =>
        IF call.key.fact_updated >= 1
        THEN \A name \in DOMAIN rules :
                call.value[name] =
                    IF name \in Differs(call.key)
                    THEN 1 ELSE 0
        ELSE /\ \A name \in DOMAIN rules : call.value[name] = 0
             /\ rule_states = call.key.rule_states

\* rule_evaluator found several events and a rule whose satisfaction had changed
C31_Witness ==
    /\ call.op = "rule_evaluator"
    /\ call.key.fact_updated >= 2
    /\ \E name \in DOMAIN rules : call.value[name] = 1

-----------------------------------------------------------------------------
(* C32: nothing is lost and nothing is processed twice, under SpecLate *)

\* C32: in whatever order the systems of a frame run, every change of the store
\* is followed by a story evaluation that reads the store at or after the
\* change (a dirty Value is drained, the drain leaves story_evaluator an event
\* to read, and story_evaluator reads its events and evaluates), and every
\* StoryBeatFinished event is read by story_beat_effect_applier exactly once
\* (a waiting event is read, and a beat's effects are applied once for each
\* event sent): no change and no event is lost or processed twice.
C32_NothingLostOrRepeated ==
    /\ (updated_facts # {}) ~> (updated_facts = {})
    /\ (fact_updated.story_evaluator > 0) ~> (fact_updated.story_evaluator = 0)
    /\ (beat_finished # <<>>) ~> (beat_finished = <<>>)
    /\ [](\A s \in 1..Len(stories) : \A b \in 1..Len(stories[s].beats) :
             applied[stories[s].beats[b].name] + Pending(stories[s].beats[b].name)
                 = (IF AdvancedPast(stories[s], b) THEN 1 ELSE 0))
    /\ [][/\ (updated_facts # {} /\ updated_facts' = {})
                => fact_updated'.story_evaluator
                       = fact_updated.story_evaluator + Cardinality(updated_facts)
          /\ fact_updated'.story_evaluator < fact_updated.story_evaluator
                => /\ fact_updated'.story_evaluator = 0
                   /\ \A s \in 1..Len(stories) :
                         stories'[s] = Story_evaluate_active_beat(stories[s], facts)]_vars

\* the last press has finished Beat1, the effect of Beat1 has finished Beat2,
\* both effects are in the store, and nothing waits to be broadcast, read or
\* applied
C32_Witness ==
    /\ get_int(facts, "button_pressed") = Some(MaxPresses)
    /\ Story_is_finished(stories[1])
    /\ applied["Beat1"] = 1
    /\ applied["Beat2"] = 1
    /\ get_bool(facts, "beat_two") = Some(TRUE)
    /\ updated_facts = {}
    /\ fact_updated.story_evaluator = 0
    /\ beat_finished = <<>>

-----------------------------------------------------------------------------
(* C33: the evaluations only read the facts, under SpecRead *)

EvaluateOps ==
    {"Condition::evaluate", "Rule::evaluate", "evaluate_rules", "evaluate_active_beat",
     "evaluate_stories"}

\* C33: Condition::evaluate, Rule::evaluate, RuleEngine::evaluate_rules,
\* Story::evaluate_active_beat and StoryEngine::evaluate_stories leave the facts
\* map and the dirty set as they are (and raise no panic); a step in which a
\* story progresses changes no fact, and the facts change only by a write of
\* the caller or by the later application of an effect of a finished beat.
C33_EvaluationsOnlyRead ==
    [][/\ call'.op \in EvaluateOps =>
              facts' = facts /\ updated_facts' = updated_facts /\ panicked' = panicked
       /\ stories' # stories => facts' = facts /\ updated_facts' = updated_facts
       /\ facts' # facts => call'.op \in {"store_int", "Effect::apply"}]_vars

\* evaluate_stories has moved the chain story to its second beat; the store
\* holds button_pressed, dirty, and not yet the fact that the first beat sets
C33_Witness ==
    /\ call.op = "evaluate_stories"
    /\ call.key # stories
    /\ stories[1].active_beat_index = 1
    /\ "button_pressed" \in DOMAIN facts
    /\ "beat_one" \notin DOMAIN facts
    /\ updated_facts # {}

-----------------------------------------------------------------------------
(* C34: the dirty set and the facts map, under SpecStore *)

\* the store's Value under the name of a Value
Current(value) == facts[NameOf(value)]

\* C34 as stated: every Value in the dirty set is the store's current Value for
\* its name, so the dirty set holds at most one Value per name.
C34_DirtyIsCurrent ==
    \A value \in updated_facts :
        /\ NameOf(value) \in DOMAIN facts
        /\ Current(value) = value

\* C34, amended: every Value in the dirty set has a name that the store holds,
\* with the variant of the Value, and the store's current Value for that name is
\* in the dirty set as well; the Values of a name that were replaced since the
\* last drain stay in the dirty set next to it.
C34_CurrentOfDirtyIsDirty ==
    \A value \in updated_facts :
        /\ NameOf(value) \in DOMAIN facts
        /\ Variant(Current(value)) = Variant(value)
        /\ Current(value) \in updated_facts

\* two writes to one name since the last drain: the dirty set holds the Value
\* that was replaced and the current one
C34_Witness ==
    \E value \in updated_facts :
        /\ NameOf(value) \in DOMAIN facts
        /\ Current(value) # value
        /\ Current(value) \in updated_facts

-----------------------------------------------------------------------------
(* C35: names and variants in the facts map, under SpecMutators *)

\* C35: every entry of the facts map is keyed by the name in its Value, and the
\* variant stored under a name never changes once the name is written (nor is
\* a name ever removed), whatever store_int, store_string, store_bool,
\* add_to_int, add_to_list and remove_from_list calls are made.
C35_NameAndVariantFixed ==
    /\ [](\A key \in DOMAIN facts : NameOf(facts[key]) = key)
    /\ [][\A key \in DOMAIN facts :
             key \in DOMAIN facts' /\ Variant(facts'[key]) = Variant(facts[key])]_vars

\* add_to_int was called on a name that holds a Bool: the Bool is still there
C35_Witness ==
    /\ call.op = "add_to_int"
    /\ call.key \in DOMAIN facts
    /\ Variant(facts[call.key]) = "Bool"
    /\ NameOf(facts[call.key]) = call.key

-----------------------------------------------------------------------------
(* C36: the two maps of the RuleEngine, under SpecRules *)

\* C36: rules and rule_states hold the same names in every state that add_rule
\* and evaluate_rules calls, in any order, lead to, so the lookup
\* rule_states.get(name).unwrap() in evaluate_rules finds a state for every rule.
C36_SameNames == DOMAIN rules = DOMAIN rule_states

\* evaluate_rules has looked up the states of several rules and flipped one
C36_Witness ==
    /\ call.op = "evaluate_rules"
    /\ Cardinality(DOMAIN rules) >= 2
    /\ call.value # {}

-----------------------------------------------------------------------------
(* C37: the finished flags and the index, under SpecStory *)

\* C37: in a story built with all beats unfinished and changed only through
\* evaluate_active_beat, beats[i].finished is true exactly for
\* i < active_beat_index (beats count from 1 here, so for b <= active_beat_index):
\* the beats before the active one are finished, the active one and the later
\* ones are not.
C37_FinishedExactlyBelowIndex ==
    \A s \in 1..Len(stories) : \A b \in 1..Len(stories[s].beats) :
        stories[s].beats[b].finished <=> b <= stories[s].active_beat_index

\* two beats of three are finished, and the last evaluation left the third,
\* which has guard rules, unfinished
C37_Witness ==
    /\ Evaluated(call)
    /\ Len(stories[1].beats) = 3
    /\ stories[1].active_beat_index = 2
    /\ stories[1].beats[3].rules # <<>>
    /\ ~stories[1].beats[3].finished

-----------------------------------------------------------------------------
(* C38: subtract_from_int, under SpecSubtract *)

\* C38: subtract_from_int(name, v) leaves the integer under name equal to
\* old - v, old being 0 for an absent name: it undoes add_to_int(name, v).
C38_SubtractStoresDifference ==
    [][call'.op = "subtract_from_int" =>
        /\ Matches(facts', call'.key, "Int")
        /\ Payload(facts'[call'.key]) = OldInt(facts, call') - call'.value]_vars

====
